---- MODULE Spec2Model ----
(***************************************************************************)
(* polywasm-deno: the per-function compiler (compileCode) that decodes the *)
(* stack-based bytecode of one WebAssembly function into a packed AST, one *)
(* basic block at a time, inlines producers into consumers and emits       *)
(* JavaScript statements.                                                  *)
(*                                                                         *)
(* The decoder is a state machine over the instruction stream: one action  *)
(* per opcode handler of the main loop.  The bytes of each instruction are *)
(* the input of a step, drawn from a menu of encodings.                    *)
(***************************************************************************)
EXTENDS Integers, Sequences, FiniteSets, TLC

(***************************************************************************)
(* Bounds of the model                                                     *)
(***************************************************************************)
\* Number of instructions decoded in one compilation.
MaxInstr == 4

\* Number of results of the many-result function type of the module: one
\* call of it fills that many stack slots.
DeepResults == 255

(***************************************************************************)
(* defs.ts                                                                 *)
(***************************************************************************)
Op ==
  [ i32_trunc_sat_f32_s |-> 0, i64_trunc_sat_f64_u |-> 7,
    memory_copy |-> 10, memory_fill |-> 11,
    unreachable |-> 0, nop |-> 1, block |-> 2, loop |-> 3, if |-> 4,
    else |-> 5, end |-> 11, br |-> 12, br_if |-> 13, br_table |-> 14,
    return |-> 15, call |-> 16, call_indirect |-> 17,
    drop |-> 26, select |-> 27, select_type |-> 28,
    local_get |-> 32, local_set |-> 33, local_tee |-> 34,
    global_get |-> 35, global_set |-> 36,
    table_get |-> 37, table_set |-> 38,
    i32_load |-> 40, i64_load |-> 41, i64_load32_u |-> 53,
    i32_store |-> 54, f32_store |-> 56, i64_store32 |-> 62,
    memory_size |-> 63, memory_grow |-> 64,
    i32_const |-> 65, i64_const |-> 66, f32_const |-> 67, f64_const |-> 68,
    i32_eqz |-> 69, i32_eq |-> 70, i32_lt_u |-> 73, i32_gt_u |-> 75,
    i32_le_u |-> 77, i32_ge_u |-> 79,
    i64_eqz |-> 80, i64_eq |-> 81, i64_lt_s |-> 83, i64_gt_s |-> 85,
    i64_le_s |-> 87, i64_ge_s |-> 89, i64_ge_u |-> 90,
    f32_eq |-> 91, f64_ge |-> 102,
    i32_clz |-> 103, i32_popcnt |-> 105, i32_add |-> 106,
    i32_div_u |-> 110, i32_rem_u |-> 112, i32_rotr |-> 120,
    i64_clz |-> 121, i64_popcnt |-> 123, i64_add |-> 124,
    i64_div_s |-> 127, i64_rem_s |-> 129, i64_and |-> 131,
    i64_shl |-> 134, i64_shr_s |-> 135, i64_shr_u |-> 136,
    i64_rotl |-> 137, i64_rotr |-> 138,
    f32_abs |-> 139, f32_sqrt |-> 145, f32_add |-> 146, f32_copysign |-> 152,
    f64_abs |-> 153, f64_sqrt |-> 159, f64_add |-> 160, f64_copysign |-> 166,
    i32_wrap_i64 |-> 167,
    i64_extend_i32_s |-> 172, i64_extend_i32_u |-> 173,
    f32_convert_i32_s |-> 178, f32_convert_i32_u |-> 179,
    f32_convert_i64_s |-> 180, f32_demote_f64 |-> 182,
    f64_convert_i32_s |-> 183, f64_convert_i32_u |-> 184,
    f64_convert_i64_s |-> 185, f64_promote_f32 |-> 187,
    f64_reinterpret_i64 |-> 191,
    i32_extend8_s |-> 192, i64_extend32_s |-> 196,
    BOOL |-> 240, BOOL_NOT |-> 241, BOOL_TO_INT |-> 242,
    TO_U32 |-> 243, TO_S64 |-> 244, U32_LOAD |-> 245, S64_LOAD |-> 246 ]

BlockKind == [ Normal |-> 0, Loop |-> 1, IfElse |-> 2 ]

MetaFlag ==
  [ PopMask |-> 3, Push |-> 4, Simple |-> 8, HasIndex |-> 16, HasAlign |-> 32,
    BoolToInt |-> 64, ToU32 |-> 128, ToS64 |-> 256, Omit |-> 512,
    And63 |-> 1024 ]

Pack ==
  [ OpMask |-> 255, ChildCountShift |-> 8, ChildCountMask |-> 65535,
    OutSlotShift |-> 24 ]

\* flags & bit, for a single-bit mask
HasFlag(flags, bit) == (flags \div bit) % 2 = 1

\* metaTable[op]: the flag words are sums of distinct bits, as the |s of the
\* source are.
metaTable ==
  [ op \in 0..255 |->
    LET M == MetaFlag
        unary  == 1 + M.Push + M.Simple
        binary == 2 + M.Push + M.Simple
        cmp    == 2 + M.Push + M.Simple + M.BoolToInt
    IN
    CASE op = Op.nop  -> M.Omit + M.Simple
      [] op = Op.drop -> 1 + M.Omit + M.Simple
      [] op = Op.local_get  -> M.Push + M.HasIndex + M.Simple
      [] op = Op.local_set  -> 1 + M.HasIndex + M.Simple
      [] op = Op.local_tee  -> 1 + M.Push + M.HasIndex + M.Simple
      [] op = Op.global_get -> M.Push + M.HasIndex + M.Simple
      [] op = Op.global_set -> 1 + M.HasIndex + M.Simple
      [] op >= Op.i32_load /\ op <= Op.i64_load32_u ->
           1 + M.Push + M.HasAlign + M.HasIndex + M.Simple
      [] op >= Op.i32_store /\ op <= Op.i64_store32 ->
           2 + M.HasAlign + M.HasIndex + M.Simple
      [] op = Op.memory_size -> M.Push + M.HasIndex + M.Simple
      [] op = Op.memory_grow -> 1 + M.Push + M.HasIndex + M.Simple
      [] op = Op.i32_eqz \/ op = Op.i64_eqz -> unary
      [] op \in {Op.i32_lt_u, Op.i32_gt_u, Op.i32_le_u, Op.i32_ge_u} ->
           cmp + M.ToU32
      [] op >= Op.i32_eq /\ op <= Op.i32_ge_u -> cmp
      [] op \in {Op.i64_lt_s, Op.i64_gt_s, Op.i64_le_s, Op.i64_ge_s} ->
           cmp + M.ToS64
      [] op >= Op.i64_eq /\ op <= Op.i64_ge_u -> cmp
      [] op >= Op.f32_eq /\ op <= Op.f64_ge -> cmp
      [] op >= Op.i32_clz /\ op <= Op.i32_popcnt -> unary
      [] op \in {Op.i32_div_u, Op.i32_rem_u} -> binary + M.ToU32
      [] op >= Op.i32_add /\ op <= Op.i32_rotr -> binary
      [] op >= Op.i64_clz /\ op <= Op.i64_popcnt -> unary
      [] op \in {Op.i64_div_s, Op.i64_rem_s} -> binary + M.ToS64
      [] op >= Op.i64_shl /\ op <= Op.i64_rotr -> binary + M.And63
      [] op >= Op.i64_add /\ op <= Op.i64_rotr -> binary
      [] op >= Op.f32_abs /\ op <= Op.f32_sqrt -> unary
      [] op >= Op.f32_add /\ op <= Op.f32_copysign -> binary
      [] op >= Op.f64_abs /\ op <= Op.f64_sqrt -> unary
      [] op >= Op.f64_add /\ op <= Op.f64_copysign -> binary
      [] op \in {Op.f32_convert_i32_u, Op.f64_convert_i32_u} ->
           unary + M.Omit + M.ToU32
      [] op \in {Op.f32_convert_i32_s, Op.f32_demote_f64,
                 Op.f64_convert_i32_s, Op.f64_promote_f32} -> unary + M.Omit
      [] op \in {Op.f32_convert_i64_s, Op.f64_convert_i64_s} ->
           unary + M.ToS64
      [] op >= Op.i32_wrap_i64 /\ op <= Op.f64_reinterpret_i64 -> unary
      [] op >= Op.i32_extend8_s /\ op <= Op.i64_extend32_s -> unary
      [] OTHER -> 0 ]

(***************************************************************************)
(* The packed node header (defs.ts, Pack).  The AST store is an Int32Array:*)
(* a header is a signed 32-bit word, and slot << 24 keeps the low 8 bits   *)
(* of the slot only.                                                       *)
(***************************************************************************)
\* slot << Pack.OutSlotShift, as a signed 32-bit integer
ShlOutSlot(slot) ==
  LET s == slot % 256
  IN  IF s < 128 THEN s * 16777216 ELSE (s - 256) * 16777216

\* op | (childCount << Pack.ChildCountShift) | (slot << Pack.OutSlotShift);
\* the three fields occupy disjoint bits for childCount <= ChildCountMask
\* (every function type of the model), where | is +.
\* A header whose child count is never written.
HeaderWithoutChildren(op, childCount, slot) == op + ShlOutSlot(slot)

Header(op, childCount, slot) == op + childCount * 256 + ShlOutSlot(slot)

\* node & Pack.OpMask
NodeOp(node) == node % 256

\* (node >> Pack.ChildCountShift) & Pack.ChildCountMask
NodeChildCount(node) == (node \div 256) % 65536

\* node >>> Pack.OutSlotShift
NodeOutSlot(node) == (node \div 16777216) % 256

(***************************************************************************)
(* The AST store (astBufferSingleton) and the words of a node.  The store  *)
(* is modelled up to its high-water mark; an Int32Array starts as zeros.   *)
(***************************************************************************)
\* the null sentinel that replaces an inlined entry of astPtrs
null == -1

\* The number of words of the store.  astBufferSingleton has 1 << 16 words;
\* the store of the model is scaled down to a size that no basic block of
\* the instruction streams drawn from the menus reaches, but the blocks that
\* are started near the end of the store.
AstCapacity == 40

\* the index is one of the typed array: a write outside is dropped, a read
\* outside is undefined (0 under &, >> and >>>)
InStore(ptr) == ptr < AstCapacity

\* ast[ptr]
Read(a, ptr) == IF ptr >= 0 /\ ptr < Len(a) THEN a[ptr + 1] ELSE 0

\* ast[ptr] = word, for ptr at most the high-water mark
Write(a, ptr, word) ==
  IF ~InStore(ptr) THEN a
  ELSE IF ptr < Len(a) THEN [a EXCEPT ![ptr + 1] = word] ELSE Append(a, word)

\* ast[astNextPtr++] = w for each w of words, in order
WriteAll(a, ptr, words) ==
  LET kept == IF InStore(ptr + Len(words) - 1) THEN words
              ELSE SubSeq(words, 1, AstCapacity - ptr)
  IN  IF ~InStore(ptr) THEN a
      ELSE SubSeq(a, 1, ptr) \o kept
             \o SubSeq(a, ptr + Len(kept) + 1, Len(a))

Max(x, y) == IF x >= y THEN x ELSE y

(***************************************************************************)
(* optimize.ts is not part of the sources: the peephole optimizer is the   *)
(* rule set with no rules, which the specification allows ("a              *)
(* reimplementation may start with zero rules"): it returns the node it is *)
(* given and changes no word.                                              *)
(***************************************************************************)
optimizeNode(a, ptr) == ptr

(***************************************************************************)
(* finalizeBasicBlock: child inlining (optimizeChildrenAndSelf)            *)
(***************************************************************************)
usesTypedArrays(op) ==
  \/ (op >= Op.i32_load /\ op <= Op.i64_store32)
  \/ op = Op.memory_copy
  \/ op = Op.memory_fill

\* A barrier with no exception left to check: every producer passes.
everyProducerPasses(prevOp) == TRUE

\* The exception of the memory barrier: the producers that may be inlined
\* into a node that uses the typed-array views.
isTriviallySafe(prevOp) ==
  \/ (prevOp >= Op.i32_const /\ prevOp <= Op.i64_const)
  \/ prevOp = Op.local_get

\* A search that skips over no node.
skipsNothing(prevOp) == FALSE

\* A search that skips over every node of another slot.
skipsEverything(prevOp) == TRUE

\* The coercions the backward search may skip over.
isSkippable(prevOp) == prevOp = Op.TO_U32 \/ prevOp = Op.TO_S64

\* A search that takes the first live node it meets, whatever its slot.
matchesFirstMet(prevNode, stackSlot) == TRUE

\* The producer matches the slot the child word names.
matchesSlot(prevNode, stackSlot) == NodeOutSlot(prevNode) = stackSlot

\* The state of one finalizeBasicBlock call while it optimizes: the cursor
\* i, astPtrs, the store, the inlinings done so far (log) and the live nodes
\* the backward searches met (met).
\* The search of the node at ptr (opcode op) for the producer of stackSlot
\* met the live node at prevPtr and took the branch act of the loop body:
\* "barrier" and "stop" are its two break statements without inlining,
\* "inline" the match, "skip" the continuation after didSkip = true.
meets(st, ptr, op, stackSlot, prevPtr, act) ==
  [st EXCEPT !.met = Append(@, [parent |-> ptr, parentOp |-> op,
                                slot |-> stackSlot, node |-> prevPtr,
                                op |-> NodeOp(Read(st.ast, prevPtr)),
                                out |-> NodeOutSlot(Read(st.ast, prevPtr)),
                                act |-> act])]

RECURSIVE optimizeChildrenAndSelf(_, _)
RECURSIVE inlineChildren(_, _, _, _)
RECURSIVE searchProducer(_, _, _, _, _, _, _)

\* for (let k = i; k >= 0; k--) { ... } of child word j of the node at ptr
searchProducer(st, ptr, op, j, stackSlot, k, didSkip) ==
  IF k < 0 THEN st
  ELSE
    LET prevPtr == st.ptrs[k + 1] IN
    IF prevPtr = null
    THEN searchProducer(st, ptr, op, j, stackSlot, k - 1, didSkip)
    ELSE
      LET prevNode == Read(st.ast, prevPtr)
          prevOp   == NodeOp(prevNode)
      IN
      IF usesTypedArrays(op) /\ ~isTriviallySafe(prevOp)
      THEN meets(st, ptr, op, stackSlot, prevPtr, "barrier")
      ELSE IF matchesSlot(prevNode, stackSlot) THEN
        LET st1 == [meets(st, ptr, op, stackSlot, prevPtr, "inline")
                      EXCEPT !.ptrs[k + 1] = null,
                             !.i = IF didSkip THEN @ ELSE k - 1]
            r   == optimizeChildrenAndSelf(st1, prevPtr)
        IN  [r.st EXCEPT
               !.ast = Write(@, ptr + j + 1, r.ret),
               !.log = Append(@, [parent |-> ptr, word |-> j + 1,
                                  slot |-> stackSlot, child |-> prevPtr,
                                  ret |-> r.ret, skipped |-> didSkip])]
      ELSE IF ~isSkippable(prevOp)
      THEN meets(st, ptr, op, stackSlot, prevPtr, "stop")
      ELSE searchProducer(meets(st, ptr, op, stackSlot, prevPtr, "skip"),
                          ptr, op, j, stackSlot, k - 1, TRUE)

\* for (let j = childCount - 1; i >= 0 && j >= 0; j--) { ... }
inlineChildren(st, ptr, op, j) ==
  IF ~(st.i >= 0 /\ j >= 0) THEN st
  ELSE
    LET stackSlot == 0 - Read(st.ast, ptr + j + 1)
        st1 == searchProducer(st, ptr, op, j, stackSlot, st.i, FALSE)
    IN  \* a child word outside the store is undefined and stackSlot NaN,
        \* which no outStackSlot equals
        IF InStore(ptr + j + 1) THEN inlineChildren(st1, ptr, op, j - 1)
        ELSE inlineChildren(st, ptr, op, j - 1)

optimizeChildrenAndSelf(st, ptr) ==
  LET node == Read(st.ast, ptr)
      op == NodeOp(node)
      childCount == NodeChildCount(node)
      st1 == inlineChildren(st, ptr, op, childCount - 1)
  IN  [st |-> st1, ret |-> optimizeNode(st1.ast, ptr)]

\* while (i >= 0) { const index = i--; ... }
RECURSIVE optimizeInReverse(_)
optimizeInReverse(st) ==
  IF st.i < 0 THEN st
  ELSE
    LET index == st.i
        st1 == [st EXCEPT !.i = index - 1]
        ptr == st1.ptrs[index + 1]
    IN
    IF ptr # null
    THEN LET r == optimizeChildrenAndSelf(st1, ptr)
         IN  optimizeInReverse([r.st EXCEPT !.ptrs[index + 1] = r.ret])
    ELSE optimizeInReverse(st1)

(***************************************************************************)
(* The module the function belongs to (the parser's sections).            *)
(* Type i is typeSection[i]; function i has type i.                        *)
(***************************************************************************)
RepeatType(t, n) == [k \in 1..n |-> t]

typeSection ==
  << [args |-> <<>>, rets |-> <<>>],
     [args |-> <<>>, rets |-> <<"i32">>],
     [args |-> <<"i32", "i32">>, rets |-> <<"i32">>],
     [args |-> <<"i32", "i32", "i32", "i32">>, rets |-> <<>>],
     [args |-> <<>>, rets |-> <<"i32", "i32">>],
     [args |-> <<>>, rets |-> RepeatType("i64", DeepResults)],
     [args |-> <<"i32">>, rets |-> <<>>],
     [args |-> <<"i32">>, rets |-> <<"i32", "i32">>] >>
  \o [k \in 1..56 |-> [args |-> <<>>, rets |-> <<>>]]
  \o << [args |-> <<>>, rets |-> <<"i32", "i32">>] >>

funcTypes == typeSection

\* typeSection[i] and funcTypes[i] are undefined outside the section
HasType(i) == i >= 0 /\ i < Len(typeSection)
TypeAt(i) == typeSection[i + 1]
HasFunc(i) == i >= 0 /\ i < Len(funcTypes)
FuncAt(i) == funcTypes[i + 1]

(***************************************************************************)
(* emit / emitUnwrapped.  An emitted expression is a tree                  *)
(*   [op, args, imm]: the node's opcode, the emitted operands in the order *)
(*   of the JavaScript text, and the immediates printed with it;           *)
(*   op = SlotOp is the stack-slot variable s<imm[1]>.                     *)
(* Beside the text, emission names stack slots through stackSlotName       *)
(* (hi: the highest slot named) and may throw (err).                       *)
(***************************************************************************)
SlotOp == -1

SlotVar(k) == [op |-> SlotOp, args |-> <<>>, imm |-> <<k>>]

\* The opcodes emitUnwrapped has a case for, by the number of operands the
\* case emits.
EmitNullary ==
  {Op.local_get, Op.global_get, Op.memory_size,
   Op.i32_const, Op.i64_const, Op.f32_const, Op.f64_const}

EmitUnary ==
  (Op.i32_trunc_sat_f32_s .. Op.i64_trunc_sat_f64_u)
  \cup {Op.local_set, Op.local_tee, Op.global_set, Op.memory_grow}
  \cup (Op.i32_load .. Op.i64_load32_u) \cup {Op.U32_LOAD, Op.S64_LOAD}
  \cup {Op.BOOL, Op.BOOL_NOT, Op.BOOL_TO_INT, Op.TO_U32, Op.TO_S64}
  \cup {Op.i32_eqz, Op.i64_eqz}
  \cup (Op.i32_clz .. Op.i32_popcnt) \cup (Op.i64_clz .. Op.i64_popcnt)
  \cup (Op.f32_abs .. Op.f32_sqrt) \cup (Op.f64_abs .. Op.f64_sqrt)
  \cup ((Op.i32_wrap_i64 .. Op.f64_reinterpret_i64)
        \ {Op.f32_convert_i32_s, Op.f32_convert_i32_u, Op.f32_demote_f64,
           Op.f64_convert_i32_s, Op.f64_convert_i32_u, Op.f64_promote_f32})
  \cup (Op.i32_extend8_s .. Op.i64_extend32_s)

EmitBinary ==
  (Op.i32_store .. Op.i64_store32)
  \cup (Op.i32_eq .. Op.i32_ge_u) \cup (Op.i64_eq .. Op.i64_ge_u)
  \cup (Op.f32_eq .. Op.f64_ge)
  \cup (Op.i32_add .. Op.i32_rotr) \cup (Op.i64_add .. Op.i64_rotr)
  \cup (Op.f32_add .. Op.f32_copysign) \cup (Op.f64_add .. Op.f64_copysign)

EmitTernary == {Op.memory_copy, Op.memory_fill, Op.select}

\* The offsets (from ptr) of the words the case emits as operands, in the
\* order of the text.
OperandWords(op, childCount) ==
  CASE op = Op.call -> [i \in 1..childCount |-> i]
    [] op = Op.call_indirect -> <<1>> \o [i \in 1..childCount |-> i + 1]
    [] op \in EmitTernary -> <<1, 2, 3>>
    [] op \in EmitBinary -> <<1, 2>>
    [] op \in EmitUnary -> <<1>>
    [] OTHER -> <<>>

RECURSIVE emitUnwrapped(_, _, _, _)
RECURSIVE emitOperands(_, _, _, _, _, _)

\* emit(ptr): a negative word is a stack slot, named through stackSlotName
emit(a, consts, word, fuel) ==
  IF word < 0
  THEN [e |-> SlotVar(0 - word), hi |-> 0 - word, err |-> ""]
  ELSE emitUnwrapped(a, consts, word, fuel)

\* the operands at offsets offs[n..] of the node at ptr, left to right
emitOperands(a, consts, ptr, offs, n, fuel) ==
  IF n > Len(offs) THEN [es |-> <<>>, hi |-> 0, err |-> ""]
  ELSE
    \* a word outside the store is undefined: emit(undefined) takes it for a
    \* pointer, and ast[undefined] is undefined again
    LET r == IF InStore(ptr + offs[n])
             THEN emit(a, consts, Read(a, ptr + offs[n]), fuel)
             ELSE [e |-> SlotVar(0), hi |-> 0,
                   err |-> "RangeError: Maximum call stack size exceeded"]
    IN
    IF r.err # "" THEN [es |-> <<>>, hi |-> r.hi, err |-> r.err]
    ELSE
      LET rest == emitOperands(a, consts, ptr, offs, n + 1, fuel)
      IN  [es |-> <<r.e>> \o rest.es, hi |-> Max(r.hi, rest.hi),
           err |-> rest.err]

\* the index that follows the operands of a call node
callIndex(a, ptr, op, childCount) ==
  Read(a, ptr + childCount + (IF op = Op.call THEN 1 ELSE 2))

\* funcTypes[index] or typeSection[index] is there
callKnown(op, index) == IF op = Op.call THEN HasFunc(index) ELSE HasType(index)

\* returnTypes.length of a call node
callReturns(op, index) ==
  Len(IF op = Op.call THEN FuncAt(index).rets ELSE TypeAt(index).rets)

\* the first result slot, the word after the index
callSlot(a, ptr, op, childCount) ==
  Read(a, ptr + childCount + (IF op = Op.call THEN 2 ELSE 3))

\* the immediates a case prints
callImmediates(index, slot, returnCount) ==
  IF returnCount < 2 THEN <<index>> ELSE <<index, slot, returnCount>>

\* a BigInt: the sum of groups[i] * 128^(i-1), less 2^(7 * Len(groups)) when
\* neg
BigInt(n) == [groups |-> <<n>>, neg |-> FALSE]

\* bit k of the two's complement of the BigInt c
BigBit(c, k) ==
  IF k < 7 * Len(c.groups)
  THEN (c.groups[(k \div 7) + 1] \div (2 ^ (k % 7))) % 2
  ELSE IF c.neg THEN 1 ELSE 0

\* bits from .. from + n - 1 of c, as a number
RECURSIVE BigBits(_, _, _)
BigBits(c, from, n) ==
  IF n = 0 THEN 0
  ELSE BigBit(c, from) + 2 * BigBits(c, from + 1, n - 1)

\* The low 64 bits of the magnitude of c, without its sign.
MaskMagnitude(c) ==
  <<BigBits([c EXCEPT !.neg = FALSE], 48, 16),
    BigBits([c EXCEPT !.neg = FALSE], 32, 16),
    BigBits([c EXCEPT !.neg = FALSE], 16, 16),
    BigBits([c EXCEPT !.neg = FALSE], 0, 16)>>

\* c & 0xFFFF_FFFF_FFFF_FFFFn, as four 16-bit digits, the highest first
Mask64(c) ==
  <<BigBits(c, 48, 16), BigBits(c, 32, 16), BigBits(c, 16, 16),
    BigBits(c, 0, 16)>>

immediates(a, consts, ptr, op, childCount) ==
  CASE op \in {Op.local_get, Op.global_get, Op.i32_const,
               Op.f32_const, Op.f64_const} -> <<Read(a, ptr + 1)>>
    [] op = Op.i64_const -> Mask64(consts[Read(a, ptr + 1) + 1])
    [] op \in {Op.local_set, Op.local_tee, Op.global_set}
         \cup (Op.i32_load .. Op.i64_load32_u)
         \cup {Op.U32_LOAD, Op.S64_LOAD} -> <<Read(a, ptr + 2)>>
    [] op \in (Op.i32_store .. Op.i64_store32) -> <<Read(a, ptr + 3)>>
    [] op \in {Op.call, Op.call_indirect} ->
         callImmediates(callIndex(a, ptr, op, childCount),
                        callSlot(a, ptr, op, childCount),
                        callReturns(op, callIndex(a, ptr, op, childCount)))
    [] OTHER -> <<>>

\* the highest slot a call with several results names: its results are
\* unpacked into the slots from the first result slot on
callNamed(a, ptr, op, childCount, returnCount) ==
  IF returnCount >= 2
  THEN callSlot(a, ptr, op, childCount) + returnCount - 1 ELSE 0

namedByNode(a, ptr, op, childCount) ==
  IF op \in {Op.call, Op.call_indirect}
  THEN callNamed(a, ptr, op, childCount,
                 callReturns(op, callIndex(a, ptr, op, childCount)))
  ELSE 0

emitFail(msg) == [e |-> SlotVar(0), hi |-> 0, err |-> msg]

\* the text of a node whose operands were emitted as r
emitted(op, imm, r, named) ==
  [e |-> [op |-> op, args |-> r.es, imm |-> imm],
   hi |-> Max(r.hi, named), err |-> r.err]

\* the switch of emitUnwrapped, on the opcode of the node at ptr
emitCase(a, consts, ptr, fuel, op, childCount) ==
  IF op \notin EmitNullary \cup EmitUnary \cup EmitBinary
               \cup EmitTernary \cup {Op.call, Op.call_indirect}
  THEN emitFail("Internal error")
  ELSE IF op \in {Op.call, Op.call_indirect}
          /\ (~callKnown(op, callIndex(a, ptr, op, childCount))
              \/ ~InStore(ptr + childCount + (IF op = Op.call THEN 1 ELSE 2)))
  THEN emitFail("TypeError: undefined is not iterable")
  ELSE IF op = Op.i64_const
          /\ ~(Read(a, ptr + 1) >= 0 /\ Read(a, ptr + 1) < Len(consts)
               /\ InStore(ptr + 1))
  THEN emitFail("TypeError: Cannot mix BigInt and other types")
  ELSE IF (op = Op.memory_size /\ Read(a, ptr + 1) # 0)
          \/ (op = Op.memory_grow /\ Read(a, ptr + 2) # 0)
  THEN emitFail("Unsupported non-zero memory index")
  ELSE emitted(op, immediates(a, consts, ptr, op, childCount),
               emitOperands(a, consts, ptr, OperandWords(op, childCount), 1,
                            fuel - 1),
               namedByNode(a, ptr, op, childCount))

\* fuel bounds the depth of the recursion: a child word that points back
\* into its own expression recurses until JavaScript's call stack overflows.
emitUnwrapped(a, consts, ptr, fuel) ==
  IF fuel = 0 THEN emitFail("RangeError: Maximum call stack size exceeded")
  ELSE emitCase(a, consts, ptr, fuel, NodeOp(Read(a, ptr)),
                NodeChildCount(Read(a, ptr)))

(***************************************************************************)
(* The emitted body: a sequence of tokens [t, n, l, e], t the kind of text,*)
(* n and l the numbers printed in it, e the expression printed in it.      *)
(***************************************************************************)
Tk(t, n, l) == [t |-> t, n |-> n, l |-> l, e |-> SlotVar(0)]
TkE(t, n, e) == [t |-> t, n |-> n, l |-> <<>>, e |-> e]

(***************************************************************************)
(* finalizeBasicBlock                                                      *)
(***************************************************************************)
\* The statements of entries ptrs[1..n], in the order of astPtrs (the source
\* pushes them from the last to the first and reverses the list).
RECURSIVE emitStatements(_, _, _, _)

\* A push that puts the statement before those of the earlier entries.
pushPartFront(rest, r, stackSlot) ==
  [parts |-> <<TkE("stmt", stackSlot, r.e)>> \o rest.parts,
   hi |-> Max(Max(r.hi, stackSlot), rest.hi),
   err |-> rest.err]

\* parts.push(`${stackSlot ? stackSlotName(stackSlot) + '=' : ''}${...};`)
pushPart(rest, r, stackSlot) ==
  [parts |-> Append(rest.parts, TkE("stmt", stackSlot, r.e)),
   hi |-> Max(Max(r.hi, stackSlot), rest.hi),
   err |-> rest.err]

\* the statement of entry n, emitted as r, after those of the entries
\* before it
emitStatement(a, consts, ptrs, n, r, stackSlot) ==
  IF r.err # "" THEN [parts |-> <<>>, hi |-> 0, err |-> r.err]
  ELSE pushPart(emitStatements(a, consts, ptrs, n - 1), r, stackSlot)

emitStatements(a, consts, ptrs, n) ==
  IF n = 0 THEN [parts |-> <<>>, hi |-> 0, err |-> ""]
  ELSE IF ptrs[n] = null THEN emitStatements(a, consts, ptrs, n - 1)
  ELSE emitStatement(a, consts, ptrs, n,
                     emitUnwrapped(a, consts, ptrs[n], Len(a) + 2),
                     NodeOutSlot(Read(a, ptrs[n])))

\* An extraction that always answers with the name of the top slot.
extractsNothing(a, ptrs, top) == FALSE

\* Which entry, if any, popStackTop extracts as the test expression.
extractsTop(a, ptrs, top) ==
  /\ Len(ptrs) > 0
  /\ ptrs[Len(ptrs)] # null
  /\ NodeOutSlot(Read(a, ptrs[Len(ptrs)])) = top

\* if (popStackTop) ...: the test expression, the extracted producer or the
\* name of the top slot
emitResult(st, consts, top, extract) ==
  IF extract
  THEN emitUnwrapped(st.ast, consts, st.ptrs[Len(st.ptrs)], Len(st.ast) + 2)
  ELSE [e |-> SlotVar(top), hi |-> 0, err |-> ""]

\* what the call leaves: the store and astPtrs after inlining, the
\* statements appended to the body, the result, stackTop and the highest
\* slot named
blockResult(st, extract, test, stmts, top, popStackTop) ==
  [ ptrs |-> st.ptrs, ast |-> st.ast, log |-> st.log, met |-> st.met,
    extracted |-> extract,
    result |-> test.e,
    parts |-> stmts.parts,
    stackTop |-> IF popStackTop THEN top - 1 ELSE top,
    hi |-> Max(test.hi, stmts.hi),
    err |-> IF popStackTop /\ test.err # "" THEN test.err ELSE stmts.err ]

\* "Emit nodes in reverse"
emitBlock(st, consts, top, popStackTop, extract) ==
  blockResult(st, extract, emitResult(st, consts, top, extract),
              emitStatements(st.ast, consts, st.ptrs,
                             IF extract THEN Len(st.ptrs) - 1
                             ELSE Len(st.ptrs)),
              top, popStackTop)

\* "Optimize nodes in reverse", then emit
optimizeAndEmit(st, consts, top, popStackTop) ==
  emitBlock(st, consts, top, popStackTop,
            popStackTop /\ extractsTop(st.ast, st.ptrs, top))

finalizeBasicBlock(ptrs0, a0, consts, top, popStackTop) ==
  optimizeAndEmit(optimizeInReverse([i |-> Len(ptrs0) - 1, ptrs |-> ptrs0,
                                     ast |-> a0, log |-> <<>>,
                                     met |-> <<>>]),
                  consts, top, popStackTop)

(***************************************************************************)
(* LEB128 readers over the bytes bs of the instruction, from offset p.     *)
(* The result is the value and the offset after it.  readU32LEB and        *)
(* readI32LEB compute in 32 bits: the encodings of the model are at most   *)
(* five bytes long, and the fifth byte is shifted by 28, where << drops    *)
(* its bits above the fourth and bit 31 is the sign.  readI64LEB computes  *)
(* in BigInt: its value is kept as the 7-bit groups read, lowest first,    *)
(* and whether -2^shift was or-ed in.                                      *)
(***************************************************************************)
\* bytes[bytesPtr]
Byte(bs, p) == IF p < Len(bs) THEN bs[p + 1] ELSE 0

\* (byte & 0x7F) << shift, in 32 bits
Shl32(group, shift) ==
  IF shift < 28 THEN group * (2 ^ shift)
  ELSE IF group % 16 >= 8 THEN ((group % 16) - 16) * (2 ^ 28)
  ELSE (group % 16) * (2 ^ 28)

RECURSIVE lebLoop(_, _, _, _)
lebLoop(bs, p, value, shift) ==
  LET byte == Byte(bs, p)
      v == value + Shl32(byte % 128, shift)
  IN  IF byte >= 128 THEN lebLoop(bs, p + 1, v, shift + 7)
      ELSE [value |-> v, next |-> p + 1, shift |-> shift + 7, byte |-> byte]

\* the loop of readI64LEB: value |= BigInt(byte & 0x7F) << shift
RECURSIVE lebLoop64(_, _, _)
lebLoop64(bs, p, groups) ==
  LET byte == Byte(bs, p)
  IN  IF byte >= 128 THEN lebLoop64(bs, p + 1, Append(groups, byte % 128))
      ELSE [groups |-> Append(groups, byte % 128), next |-> p + 1,
            shift |-> 7 * (Len(groups) + 1), byte |-> byte]

readU32LEB(bs, p) ==
  LET r == lebLoop(bs, p, 0, 0) IN [value |-> r.value, next |-> r.next]

readI32LEB(bs, p) ==
  LET r == lebLoop(bs, p, 0, 0)
  IN  [value |-> IF r.shift < 32 /\ (r.byte \div 64) % 2 = 1
                 THEN r.value - 2 ^ r.shift ELSE r.value,
       next |-> r.next]

readI64LEB(bs, p) ==
  LET r == lebLoop64(bs, p, <<>>)
  IN  [value |-> [groups |-> r.groups,
                  neg |-> r.shift < 64 /\ (r.byte \div 64) % 2 = 1],
       next |-> r.next]

readBlockType(bs, p) ==
  LET byte == Byte(bs, p)
      t == readU32LEB(bs, p)
  IN  IF byte = 64
      THEN [argCount |-> 0, returnCount |-> 0, next |-> p + 1, err |-> ""]
      ELSE IF (byte \div 64) % 2 = 1
      THEN [argCount |-> 0, returnCount |-> 1, next |-> p + 1, err |-> ""]
      ELSE IF ~HasType(t.value)
      THEN [argCount |-> 0, returnCount |-> 0, next |-> t.next,
            err |-> "TypeError: undefined is not iterable"]
      ELSE [argCount |-> Len(TypeAt(t.value).args),
            returnCount |-> Len(TypeAt(t.value).rets),
            next |-> t.next, err |-> ""]

(***************************************************************************)
(* The state of one compileCode call                                       *)
(***************************************************************************)
VARIABLES
  funcType,    \* functionSection[codeIndex]: the type index of the function
  pending,     \* the bytes from bytesPtr up to the next instruction
  bytesPtr,    \* offset of the next byte, from codeStart
  blocks,      \* the block stack
  stackTop,    \* the slot of the value on top of the virtual stack
  stackLimit,  \* the highest slot stackSlotName has declared
  nextLabel,   \* the next label of the dispatch loop
  ast,         \* the AST store
  astPtrs,     \* the top-level nodes of the current basic block
  astNextPtr,  \* the bump pointer into the store
  constants,   \* the i64 constants of the current basic block
  body,        \* the emitted body
  status,      \* "decoding", "returned" (a function) or "threw"
  error,       \* the message thrown
  menu,        \* the encodings the instructions of the body are drawn from
  \* History, for stating the properties:
  nInstr,      \* the number of instructions decoded
  val,         \* the validation state of the instructions read so far
  notes,       \* per entry of astPtrs: what the decoder meant to write
  last,        \* the instruction decoded last, and the state it met
  peakTop,     \* the highest stackTop an instruction left in a live block
  fin,         \* the last finalizeBasicBlock call: its input and its output
  call         \* the call of an entry point of the module in progress

vars == << funcType, pending, bytesPtr, blocks, stackTop, stackLimit,
           nextLabel, ast, astPtrs, astNextPtr, constants, body, status,
           error, menu, nInstr, val, notes, last, peakTop, fin, call >>

\* No entry point has been called.
NoCall ==
  [ entry |-> "", input |-> "", sourceOk |-> TRUE, parseOk |-> TRUE,
    linkOk |-> TRUE, pc |-> "idle", how |-> "", promise |-> "",
    built |-> <<>>, calls |-> 0 ]

\* A limit that switches to the dispatch loop one level early.
earlyDepthLimit == 200 + 55

blockDepthLimit == 256

\* The function has no parameters and two locals, an i32 and an i64
\* (codeSection[codeIndex][0]): names = <<"t2", "t3">>.
localTypes == <<"i32", "i64">>

(***************************************************************************)
(* Writing nodes.  nb is the part of the state the node writers change:    *)
(* the store, astPtrs, astNextPtr, the constants, and the notes.           *)
(***************************************************************************)
\* astPtrs.push(astNextPtr); ast[astNextPtr++] = header; then the words.
\* slot is the output slot the header is meant to carry, top the depth of
\* the virtual stack before the instruction popped the node's operands,
\* kids the number of operand words.
pushNode(nb, op, childCount, slot, words, top, kids) ==
  [ nb EXCEPT
      !.ptrs = Append(@, nb.next),
      !.ast = WriteAll(@, nb.next, <<Header(op, childCount, slot)>> \o words),
      !.next = @ + 1 + Len(words),
      !.notes = Append(@, [op |-> op, slot |-> slot, top |-> top,
                           kids |-> kids]) ]

pushUnary(nb, op, stackSlot, top) ==
  pushNode(nb, op, 1, stackSlot, <<0 - stackSlot>>, top, 1)

\* constants.push(c)
pushConstant(nb, c) == [nb EXCEPT !.consts = Append(@, c)]

\* for (let i = 0; i < childCount; i++) pushUnary(op, stackTop + i + 1)
RECURSIVE pushCoercions(_, _, _, _, _, _)
pushCoercions(nb, op, top1, i, childCount, top) ==
  IF i >= childCount THEN nb
  ELSE pushCoercions(pushUnary(nb, op, top1 + i + 1, top), op, top1, i + 1,
                     childCount, top)

\* Operand references that are off by one slot, upwards.
slotRefsAbove(top1, n) == [i \in 1..n |-> 0 - (top1 + i + 1)]

\* -(stackTop + 1), ..., -(stackTop + n)
slotRefs(top1, n) == [i \in 1..n |-> 0 - (top1 + i)]

(***************************************************************************)
(* A handler works on a record r of the values it may change:              *)
(*   stackTop, blocks, nb, body, stackLimit, nextLabel;                    *)
(*   p: the offset in the instruction's bytes of the next byte to read;    *)
(*   err: the message thrown, "" if none; test: the test expression;       *)
(*   fin: the finalizeBasicBlock call made, if any.                        *)
(***************************************************************************)
NoFin == [ called |-> FALSE, pop |-> FALSE, top |-> 0, dead |-> FALSE,
           prePtrs |-> <<>>, preAst |-> <<>>, preNotes |-> <<>>,
           preNext |-> 0,
           ptrs |-> <<>>, ast |-> <<>>, log |-> <<>>, met |-> <<>>,
           extracted |-> FALSE ]

\* A reset that forgets to clear the constants.
ConstantsKept(a) ==
  [ast |-> a, ptrs |-> <<>>, next |-> 0, notes |-> <<>>, consts |-> <<BigInt(63)>>]

EmptyNodes(a) ==
  [ast |-> a, ptrs |-> <<>>, next |-> 0, notes |-> <<>>, consts |-> <<>>]

isDead(bl) == bl[Len(bl)].isDead_

\* the effects of a finalizeBasicBlock call that returned f
finalized(r, popStackTop, f) ==
  IF f.err # "" THEN [r EXCEPT !.err = f.err, !.nb.ast = f.ast]
  ELSE [ r EXCEPT
           !.body = @ \o f.parts,
           !.nb = EmptyNodes(f.ast),
           !.stackTop = f.stackTop,
           !.stackLimit = Max(@, f.hi),
           !.test = f.result,
           !.fin = [ called |-> TRUE, pop |-> popStackTop,
                     top |-> r.stackTop, dead |-> isDead(r.blocks),
                     prePtrs |-> r.nb.ptrs, preAst |-> r.nb.ast,
                     preNotes |-> r.nb.notes, preNext |-> r.nb.next,
                     ptrs |-> f.ptrs, ast |-> f.ast, log |-> f.log,
                     met |-> f.met,
                     extracted |-> f.extracted ] ]

\* finalizeBasicBlock(popStackTop), with its effects on the compilation
finalize(r, popStackTop) ==
  finalized(r, popStackTop,
            finalizeBasicBlock(r.nb.ptrs, r.nb.ast, r.nb.consts, r.stackTop,
                               popStackTop))

\* body += ...
emitText(r, toks) == [r EXCEPT !.body = @ \o toks]

(***************************************************************************)
(* pushBlock and jump                                                      *)
(***************************************************************************)
\* pushBlock(kind); the label it returns is r.label
pushBlock(r, kind, bs) ==
  LET n == Len(r.blocks)
      isBelowLimit == n < blockDepthLimit
      opens == n = blockDepthLimit
      next0 == IF ~isBelowLimit /\ opens THEN 2 ELSE r.nextLabel
      labelBreak == IF isBelowLimit THEN -1 ELSE next0
      next1 == IF isBelowLimit THEN next0 ELSE next0 + 1
      labelContinueOrElse ==
        IF isBelowLimit THEN -1
        ELSE IF kind # BlockKind.Normal THEN next1 ELSE 0
      next2 == IF ~isBelowLimit /\ kind # BlockKind.Normal
               THEN next1 + 1 ELSE next1
      bt == readBlockType(bs, r.p)
      opener == IF isBelowLimit THEN <<Tk("label", n, <<>>)>>
                ELSE IF opens THEN <<Tk("dispatch", n, <<>>)>>
                ELSE <<>>
  IN
  IF bt.err # ""
  THEN [r EXCEPT !.err = bt.err, !.body = @ \o opener, !.nextLabel = next2,
                 !.p = bt.next]
  ELSE [ r EXCEPT
           !.body = @ \o opener,
           !.nextLabel = next2,
           !.p = bt.next,
           !.label = labelContinueOrElse,
           !.blocks = Append(@,
              [ argCount_ |-> bt.argCount,
                isDead_ |-> FALSE,
                kind_ |-> kind,
                labelBreak_ |-> labelBreak,
                labelContinueOrElse_ |-> labelContinueOrElse,
                parentStackTop_ |-> r.stackTop - bt.argCount,
                returnCount_ |-> bt.returnCount ]) ]

\* Copies that take their values from the bottom of the stack.
slotCopiesFromBottom(parent, top, count) ==
  [i \in 1..count |-> Tk("copy", parent + i, <<i>>)]

\* s<parent+1>=s<top-count+1>; ... s<parent+count>=s<top>;
slotCopies(parent, top, count) ==
  [i \in 1..count |-> Tk("copy", parent + i, <<top - count + i>>)]

\* The returned slots, the top of the stack first.
returnSlotsDescending(top, n) == [i \in 1..n |-> top - i + 1]

\* for (let i = returnCount - 1; i >= 0; i--) values.push('s' + (stackTop - i))
returnSlots(top, n) == [i \in 1..n |-> top - n + i]

\* jump(index), index counted from the bottom of the block stack
jump(r, index) ==
  IF isDead(r.blocks) THEN r
  ELSE IF ~(index >= 0 /\ index < Len(r.blocks))
  THEN [r EXCEPT !.err = "TypeError: Cannot read properties of undefined"]
  ELSE
    LET block == r.blocks[index + 1]
        top == r.stackTop
    IN
    IF index = 0 THEN
      IF block.returnCount_ = 1
      THEN emitText(r, <<Tk("return", 1, <<top>>)>>)
      ELSE IF block.returnCount_ > 1
      THEN emitText(r, <<Tk("return", block.returnCount_,
                            returnSlots(top, block.returnCount_))>>)
      ELSE emitText(r, <<Tk("return", 0, <<>>)>>)
    ELSE IF block.kind_ = BlockKind.Loop THEN
      emitText(r,
        (IF top > block.parentStackTop_ + block.argCount_
         THEN slotCopies(block.parentStackTop_, top, block.argCount_)
         ELSE <<>>)
        \o (IF index < blockDepthLimit
            THEN <<Tk("continue", index, <<>>)>>
            ELSE <<Tk("goto", block.labelContinueOrElse_, <<>>)>>))
    ELSE
      emitText(r,
        (IF top > block.parentStackTop_ + block.returnCount_
         THEN slotCopies(block.parentStackTop_, top, block.returnCount_)
         ELSE <<>>)
        \o (IF index <= blockDepthLimit
            THEN <<Tk("break", index, <<>>)>>
            ELSE <<Tk("goto", block.labelBreak_, <<>>)>>))

\* A jump that counts the depth from the frame below the innermost one.
jumpReadBelow(r, bs) ==
  LET d == readU32LEB(bs, r.p)
  IN  jump([r EXCEPT !.p = d.next], Max(0, Len(r.blocks) - d.value - 2))

\* jump(): the depth is read from the bytes even when the block is dead
jumpRead(r, bs) ==
  LET d == readU32LEB(bs, r.p)
  IN  jump([r EXCEPT !.p = d.next], Len(r.blocks) - d.value - 1)

(***************************************************************************)
(* The input.  compileCode is given the body of a function of a           *)
(* well-formed module: the instructions it reads are the prefixes of       *)
(* bodies that pass WebAssembly validation.  v is the validation state:    *)
(* the types on the operand stack ("?" is a value of unknown type, in      *)
(* unreachable code) and the control frames.                               *)
(***************************************************************************)
\* pop one operand of type t ("any": of any type)
vpop(v, t) ==
  LET F == v.frames[Len(v.frames)]
      n == Len(v.stack)
  IN  IF n = F.base THEN [ok |-> F.dead, v |-> v]
      ELSE [ok |-> t = "any" \/ v.stack[n] = t \/ v.stack[n] = "?",
            v |-> [v EXCEPT !.stack = SubSeq(@, 1, n - 1)]]

\* pop operands of types ts, the last one first
RECURSIVE vpopAll(_, _)
vpopAll(v, ts) ==
  IF ts = <<>> THEN [ok |-> TRUE, v |-> v]
  ELSE LET r == vpop(v, ts[Len(ts)])
       IN  IF ~r.ok THEN r ELSE vpopAll(r.v, SubSeq(ts, 1, Len(ts) - 1))

vpush(v, ts) == [v EXCEPT !.stack = @ \o ts]

\* the rest of the frame is unreachable
vdead(v) ==
  LET k == Len(v.frames)
  IN  [v EXCEPT !.stack = SubSeq(@, 1, v.frames[k].base),
                !.frames[k].dead = TRUE]

\* an instruction of type ins -> outs
vapply(v, ins, outs) ==
  LET r == vpopAll(v, ins) IN [ok |-> r.ok, v |-> vpush(r.v, outs)]

\* the type of a block type immediate
blockTypeOf(enc) ==
  IF enc[2] = 64 THEN [args |-> <<>>, rets |-> <<>>]
  ELSE IF enc[2] = 127 THEN [args |-> <<>>, rets |-> <<"i32">>]
  ELSE TypeAt(readU32LEB(enc, 1).value)

\* block, loop, if
venter(v, kind, bt) ==
  LET c == IF kind = "if" THEN vpop(v, "i32") ELSE [ok |-> TRUE, v |-> v]
      r == vpopAll(c.v, bt.args)
  IN  [ok |-> c.ok /\ r.ok,
       v |-> [r.v EXCEPT
                !.frames = Append(@, [base |-> Len(r.v.stack), dead |-> FALSE,
                                      params |-> bt.args, results |-> bt.rets,
                                      kind |-> kind]),
                !.stack = @ \o bt.args]]

\* the operands a branch to the frame at depth d carries
labelTypes(v, d) ==
  LET F == v.frames[Len(v.frames) - d]
  IN  IF F.kind = "loop" THEN F.params ELSE F.results

\* the end of the innermost frame's instructions: its results are on the
\* stack and nothing else is
vclose(v) ==
  LET F == v.frames[Len(v.frames)]
      r == vpopAll(v, F.results)
  IN  [ok |-> r.ok /\ Len(r.v.stack) = F.base, v |-> r.v, F |-> F]

vselect(v) ==
  LET c == vpop(v, "i32")
      F == v.frames[Len(v.frames)]
      typeAt(w) == IF Len(w.stack) = F.base THEN "?" ELSE w.stack[Len(w.stack)]
      t1 == typeAt(c.v)
      a == vpop(c.v, "any")
      t2 == typeAt(a.v)
      b == vpop(a.v, "any")
  IN  [ok |-> c.ok /\ a.ok /\ b.ok /\ (t1 = t2 \/ t1 = "?" \/ t2 = "?"),
       v |-> vpush(b.v, <<IF t1 = "?" THEN t2 ELSE t1>>)]

\* the operand and result types of an instruction without control flow
signature(enc) ==
  LET op == enc[1]
      sig(ins, outs) == [ok |-> TRUE, ins |-> ins, outs |-> outs]
      local == <<localTypes[enc[2] + 1]>>
      i32 == <<"i32">>
      i64 == <<"i64">>
  IN
  CASE op = Op.nop -> sig(<<>>, <<>>)
    [] op = Op.call /\ HasFunc(enc[2]) ->
         sig(FuncAt(enc[2]).args, FuncAt(enc[2]).rets)
    [] op = Op.call_indirect /\ HasType(enc[2]) ->
         sig(TypeAt(enc[2]).args \o i32, TypeAt(enc[2]).rets)
    [] op = Op.drop -> sig(<<"any">>, <<>>)
    [] op = Op.local_get -> sig(<<>>, local)
    [] op = Op.local_set -> sig(local, <<>>)
    [] op = Op.local_tee -> sig(local, local)
    [] op = Op.i32_load -> sig(i32, i32)
    [] op = Op.i32_store -> sig(i32 \o i32, <<>>)
    [] op = Op.f32_store -> sig(i32 \o <<"f32">>, <<>>)
    [] op = Op.memory_size -> sig(<<>>, i32)
    [] op = Op.memory_grow -> sig(i32, i32)
    [] op = Op.i32_const -> sig(<<>>, i32)
    [] op = Op.i64_const -> sig(<<>>, i64)
    [] op = Op.f32_const -> sig(<<>>, <<"f32">>)
    [] op = Op.f64_const -> sig(<<>>, <<"f64">>)
    [] op = Op.i32_eqz -> sig(i32, i32)
    [] op = Op.i32_lt_u \/ op = Op.i32_add -> sig(i32 \o i32, i32)
    [] op = Op.i64_lt_s -> sig(i64 \o i64, i32)
    [] op = Op.i64_shl \/ op = Op.i64_add -> sig(i64 \o i64, i64)
    [] op = Op.f32_convert_i32_u -> sig(i32, <<"f32">>)
    [] op = Op.i64_extend_i32_s \/ op = Op.i64_extend_i32_u -> sig(i32, i64)
    [] op = 252 /\ enc[2] = Op.i32_trunc_sat_f32_s -> sig(<<"f32">>, i32)
    [] op = 252 /\ enc[2] \in {8, Op.memory_copy, Op.memory_fill} ->
         sig(i32 \o i32 \o i32, <<>>)
    [] OTHER -> [ok |-> FALSE, ins |-> <<>>, outs |-> <<>>]

\* an instruction without control flow, of signature s
vplain(v, s) ==
  IF s.ok THEN vapply(v, s.ins, s.outs) ELSE [ok |-> FALSE, v |-> v]

\* else: the frame of the if ended as c
velse(v, n, c) ==
  [ok |-> v.frames[n].kind = "if" /\ c.ok,
   v |-> [c.v EXCEPT !.frames[n].kind = "else",
                     !.frames[n].dead = FALSE,
                     !.stack = @ \o c.F.params]]

\* end: the frame ended as c
vend(v, n, c) ==
  [ok |-> c.ok /\ (c.F.kind = "if" => c.F.params = c.F.results),
   v |-> [c.v EXCEPT !.frames = SubSeq(@, 1, n - 1),
                     !.stack = @ \o c.F.results,
                     !.done = n = 1]]

\* a branch that is always taken, carrying operands of types ts
vjump(v, c, ts) ==
  LET r == vpopAll(c.v, ts) IN [ok |-> c.ok /\ r.ok, v |-> vdead(r.v)]

\* br_if: the operands stay
vbrif(c, ts) ==
  LET r == vapply(c.v, ts, ts) IN [ok |-> c.ok /\ r.ok, v |-> r.v]

\* One instruction, given by its encoding: whether it is valid after the
\* instructions read so far, and the validation state after it.
validate(v, enc) ==
  LET op == enc[1]
      n == Len(v.frames)
      same == [ok |-> TRUE, v |-> v]
      bad == [ok |-> FALSE, v |-> v]
  IN
  CASE op = Op.unreachable -> [ok |-> TRUE, v |-> vdead(v)]
    [] op \in {Op.block, Op.loop, Op.if} ->
         venter(v, IF op = Op.block THEN "block"
                   ELSE IF op = Op.loop THEN "loop" ELSE "if",
                blockTypeOf(enc))
    [] op = Op.else -> velse(v, n, vclose(v))
    [] op = Op.end -> vend(v, n, vclose(v))
    [] op = Op.br ->
         IF enc[2] >= n THEN bad ELSE vjump(v, same, labelTypes(v, enc[2]))
    [] op = Op.br_if ->
         IF enc[2] >= n THEN bad
         ELSE vbrif(vpop(v, "i32"), labelTypes(v, enc[2]))
    [] op = Op.br_table ->
         \* the encodings of the model have one entry and the default
         IF enc[3] >= n \/ enc[4] >= n
            \/ labelTypes(v, enc[3]) # labelTypes(v, enc[4]) THEN bad
         ELSE vjump(v, vpop(v, "i32"), labelTypes(v, enc[4]))
    [] op = Op.return -> vjump(v, same, v.frames[1].results)
    [] op = Op.select \/ op = Op.select_type -> vselect(v)
    [] OTHER -> vplain(v, signature(enc))

(***************************************************************************)
(* The opcode handlers of the main loop.  bs are the bytes from the        *)
(* opcode on; r.p starts after the opcode (after the 0xFC prefix's second  *)
(* byte, for the prefixed ones); r.base is bytesPtr at the opcode.         *)
(***************************************************************************)
\* run the rest of a handler unless an earlier part of it threw
Then(r, rest(_)) == IF r.err # "" THEN r ELSE rest(r)

throw(r, msg) == [r EXCEPT !.err = msg]

setDead(r, dead) == [r EXCEPT !.blocks[Len(r.blocks)].isDead_ = dead]

\* the offset after the alignment hint and the index, where the opcode has
\* them
afterAlign(flags, p) == IF HasFlag(flags, MetaFlag.HasAlign) THEN p + 1 ELSE p

afterIndex(flags, bs, p) ==
  IF HasFlag(flags, MetaFlag.HasIndex)
  THEN readU32LEB(bs, afterAlign(flags, p)).next
  ELSE afterAlign(flags, p)

\* flags & MetaFlag.And63: the shift count is masked in a temporary slot
and63Nodes(nb, flags, T) ==
  IF HasFlag(flags, MetaFlag.And63)
  THEN pushNode(
         pushConstant(
           pushNode(nb, Op.i64_const, 0, T + 1, <<Len(nb.consts)>>, T, 0),
           BigInt(63)),
         Op.i64_and, 2, T, <<0 - T, 0 - (T + 1)>>, T, 2)
  ELSE nb

\* flags & (MetaFlag.ToU32 | MetaFlag.ToS64)
coercionNodes(nb, flags, top1, childCount, T) ==
  IF HasFlag(flags, MetaFlag.ToU32)
  THEN pushCoercions(nb, Op.TO_U32, top1, 0, childCount, T)
  ELSE IF HasFlag(flags, MetaFlag.ToS64)
  THEN pushCoercions(nb, Op.TO_S64, top1, 0, childCount, T)
  ELSE nb

\* !(flags & MetaFlag.Omit): the node of the instruction itself
simpleNode(nb, bs, p, op, flags, top1, childCount, T) ==
  IF HasFlag(flags, MetaFlag.Omit) THEN nb
  ELSE pushNode(nb, op, childCount,
                IF HasFlag(flags, MetaFlag.Push) THEN top1 + 1 ELSE 0,
                slotRefs(top1, childCount)
                  \o (IF HasFlag(flags, MetaFlag.HasIndex)
                      THEN <<readU32LEB(bs, afterAlign(flags, p)).value>>
                      ELSE <<>>),
                T, childCount)

\* flags & MetaFlag.Push, flags & MetaFlag.BoolToInt
pushedNodes(nb, flags, top2, T) ==
  IF HasFlag(flags, MetaFlag.BoolToInt)
  THEN pushUnary(nb, Op.BOOL_TO_INT, top2, T)
  ELSE nb

decodeSimple(r, bs, op, flags, childCount, T) ==
  [ r EXCEPT
      !.nb = pushedNodes(
               simpleNode(
                 coercionNodes(and63Nodes(r.nb, flags, T), flags,
                               T - childCount, childCount, T),
                 bs, r.p, op, flags, T - childCount, childCount, T),
               flags,
               IF HasFlag(flags, MetaFlag.Push) THEN T - childCount + 1
               ELSE T - childCount,
               T),
      !.stackTop = IF HasFlag(flags, MetaFlag.Push) THEN T - childCount + 1
                   ELSE T - childCount,
      !.p = IF HasFlag(flags, MetaFlag.Omit) THEN r.p
            ELSE afterIndex(flags, bs, r.p) ]

\* flags & MetaFlag.Simple
handleSimple(r, bs, op) ==
  IF isDead(r.blocks) THEN [r EXCEPT !.p = afterIndex(metaTable[op], bs, r.p)]
  ELSE decodeSimple(r, bs, op, metaTable[op],
                    metaTable[op] % (MetaFlag.PopMask + 1), r.stackTop)

\* case Op.unreachable
handleUnreachable(r) ==
  LET wasDead == isDead(r.blocks)
      mark(q) == IF wasDead THEN q
                 ELSE setDead(emitText(q, <<Tk("unreachable", 0, <<>>)>>),
                              TRUE)
  IN  Then(finalize(r, FALSE), mark)

\* case Op.block
handleBlock(r, bs) ==
  LET open(q) == IF q.label < 0 THEN emitText(q, <<Tk("{", 0, <<>>)>>) ELSE q
      push(q) == Then(pushBlock(q, BlockKind.Normal, bs), open)
  IN  Then(finalize(r, FALSE), push)

\* case Op.loop
handleLoop(r, bs) ==
  LET open(q) == IF q.label < 0 THEN emitText(q, <<Tk("for", 0, <<>>)>>)
                 ELSE emitText(q, <<Tk("case", q.label, <<>>)>>)
      push(q) == Then(pushBlock(q, BlockKind.Loop, bs), open)
  IN  Then(finalize(r, FALSE), push)

\* case Op.if
handleIf(r, bs) ==
  LET r1 == IF isDead(r.blocks) THEN r
            ELSE [r EXCEPT !.nb =
                    pushUnary(@, IF Len(r.blocks) < blockDepthLimit
                                 THEN Op.BOOL ELSE Op.BOOL_NOT,
                              r.stackTop, r.stackTop)]
      open(q) == IF q.label < 0 THEN emitText(q, <<TkE("if", 0, q.test)>>)
                 ELSE emitText(q, <<TkE("ifgoto", q.label, q.test)>>)
      push(q) == Then(pushBlock(q, BlockKind.IfElse, bs), open)
  IN  Then(finalize(r1, TRUE), push)

\* An else that leaves stackTop and isDead_ as the then-branch left them.
handleElseStale(r) ==
  LET index == Len(r.blocks) - 1
      block == r.blocks[index + 1]
      close(q) ==
        [ emitText(q, IF index < blockDepthLimit
                      THEN <<Tk("}else{", 0, <<>>)>>
                      ELSE <<Tk("case", block.labelContinueOrElse_, <<>>)>>)
          EXCEPT !.blocks[index + 1].kind_ = BlockKind.Normal ]
      go(q) == Then(jump(q, index), close)
  IN  Then(finalize(r, FALSE), go)

\* case Op.else
handleElse(r) ==
  LET index == Len(r.blocks) - 1
      block == r.blocks[index + 1]
      close(q) ==
        [ emitText(q, IF index < blockDepthLimit
                      THEN <<Tk("}else{", 0, <<>>)>>
                      ELSE <<Tk("case", block.labelContinueOrElse_, <<>>)>>)
          EXCEPT !.blocks[index + 1].kind_ = BlockKind.Normal,
                 !.blocks[index + 1].isDead_ = FALSE,
                 !.stackTop = block.parentStackTop_ + block.argCount_ ]
      go(q) == Then(jump(q, index), close)
  IN  Then(finalize(r, FALSE), go)

\* An end that hands the deadness of the popped frame to its parent.
handleEndSpreading(r) ==
  LET index == Len(r.blocks) - 1
      block == r.blocks[index + 1]
      labelElse == IF block.kind_ # BlockKind.IfElse THEN 0
                   ELSE block.labelContinueOrElse_
      mark(q) == [q EXCEPT !.blocks[index + 1].labelContinueOrElse_ = labelElse,
                           !.blocks[index + 1].kind_ = BlockKind.Normal]
      text == IF index < blockDepthLimit THEN <<Tk("}", 0, <<>>)>>
              ELSE (IF labelElse # 0 THEN <<Tk("case", labelElse, <<>>)>>
                    ELSE <<>>)
                   \o <<Tk("case", block.labelBreak_, <<>>)>>
                   \o (IF index = blockDepthLimit
                       THEN <<Tk("}break}", 0, <<>>)>> ELSE <<>>)
      spread(bl) == IF index > 0 /\ block.isDead_
                    THEN [SubSeq(bl, 1, index) EXCEPT ![index].isDead_ = TRUE]
                    ELSE SubSeq(bl, 1, index)
      close(q) ==
        [ emitText(q, text)
          EXCEPT !.stackTop = block.parentStackTop_ + block.returnCount_,
                 !.blocks = spread(@) ]
      go(q) == Then(jump(mark(q), index), close)
  IN  Then(finalize(r, FALSE), go)

\* An end that emits the label of the else branch whatever the frame's kind.
handleEndRelabels(r) ==
  LET index == Len(r.blocks) - 1
      block == r.blocks[index + 1]
      labelElse == block.labelContinueOrElse_
      mark(q) == [q EXCEPT !.blocks[index + 1].labelContinueOrElse_ = labelElse,
                           !.blocks[index + 1].kind_ = BlockKind.Normal]
      text == IF index < blockDepthLimit THEN <<Tk("}", 0, <<>>)>>
              ELSE (IF labelElse # 0 THEN <<Tk("case", labelElse, <<>>)>>
                    ELSE <<>>)
                   \o <<Tk("case", block.labelBreak_, <<>>)>>
                   \o (IF index = blockDepthLimit
                       THEN <<Tk("}break}", 0, <<>>)>> ELSE <<>>)
      close(q) ==
        [ emitText(q, text)
          EXCEPT !.stackTop = block.parentStackTop_ + block.returnCount_,
                 !.blocks = SubSeq(@, 1, index) ]
      go(q) == Then(jump(mark(q), index), close)
  IN  Then(finalize(r, FALSE), go)

\* An end that leaves the dispatch loop open.
handleEndKeepsLoop(r) ==
  LET index == Len(r.blocks) - 1
      block == r.blocks[index + 1]
      labelElse == IF block.kind_ # BlockKind.IfElse THEN 0
                   ELSE block.labelContinueOrElse_
      mark(q) == [q EXCEPT !.blocks[index + 1].labelContinueOrElse_ = labelElse,
                           !.blocks[index + 1].kind_ = BlockKind.Normal]
      text == IF index < blockDepthLimit THEN <<Tk("}", 0, <<>>)>>
              ELSE (IF labelElse # 0 THEN <<Tk("case", labelElse, <<>>)>>
                    ELSE <<>>)
                   \o <<Tk("case", block.labelBreak_, <<>>)>>
      close(q) ==
        [ emitText(q, text)
          EXCEPT !.stackTop = block.parentStackTop_ + block.returnCount_,
                 !.blocks = SubSeq(@, 1, index) ]
      go(q) == Then(jump(mark(q), index), close)
  IN  Then(finalize(r, FALSE), go)

\* case Op.end
handleEnd(r) ==
  LET index == Len(r.blocks) - 1
      block == r.blocks[index + 1]
      labelElse == IF block.kind_ # BlockKind.IfElse THEN 0
                   ELSE block.labelContinueOrElse_
      mark(q) == [q EXCEPT !.blocks[index + 1].labelContinueOrElse_ = labelElse,
                           !.blocks[index + 1].kind_ = BlockKind.Normal]
      text == IF index < blockDepthLimit THEN <<Tk("}", 0, <<>>)>>
              ELSE (IF labelElse # 0 THEN <<Tk("case", labelElse, <<>>)>>
                    ELSE <<>>)
                   \o <<Tk("case", block.labelBreak_, <<>>)>>
                   \o (IF index = blockDepthLimit
                       THEN <<Tk("}break}", 0, <<>>)>> ELSE <<>>)
      close(q) ==
        [ emitText(q, text)
          EXCEPT !.stackTop = block.parentStackTop_ + block.returnCount_,
                 !.blocks = SubSeq(@, 1, index) ]
      go(q) == Then(jump(mark(q), index), close)
  IN  Then(finalize(r, FALSE), go)

\* case Op.br
handleBr(r, bs) ==
  LET kill(q) == setDead(q, TRUE)
      go(q) == Then(jumpRead(q, bs), kill)
  IN  Then(finalize(r, FALSE), go)

\* case Op.br_if
handleBrIf(r, bs) ==
  LET r1 == IF isDead(r.blocks) THEN r
            ELSE [r EXCEPT !.nb = pushUnary(@, Op.BOOL, r.stackTop,
                                            r.stackTop)]
      close(q) == emitText(q, <<Tk("}", 0, <<>>)>>)
      go(q) == Then(jumpRead(emitText(q, <<TkE("if", 0, q.test)>>), bs),
                    close)
  IN  Then(finalize(r1, TRUE), go)

\* for (let i = 0, tableCount = readU32LEB(); i < tableCount; i++) ...
RECURSIVE jumpCases(_, _, _, _)
jumpCases(r, bs, i, tableCount) ==
  IF r.err # "" \/ i >= tableCount THEN r
  ELSE jumpCases(jumpRead(emitText(r, <<Tk("case", i, <<>>)>>), bs), bs,
                 i + 1, tableCount)

\* case Op.br_table
handleBrTable(r, bs) ==
  LET kill(q) == setDead(emitText(q, <<Tk("}", 0, <<>>)>>), TRUE)
      default(q) == Then(jumpRead(emitText(q, <<Tk("default", 0, <<>>)>>),
                                  bs), kill)
      go(q) ==
        LET tableCount == readU32LEB(bs, q.p)
        IN  Then(jumpCases([emitText(q, <<TkE("switch", 0, q.test)>>)
                              EXCEPT !.p = tableCount.next],
                           bs, 0, tableCount.value),
                 default)
  IN  Then(finalize(r, TRUE), go)

\* case Op.return
handleReturn(r) ==
  LET kill(q) == setDead(q, TRUE)
      go(q) == Then(jump(q, 0), kill)
  IN  Then(finalize(r, FALSE), go)

\* The node of a call: the arguments at slots top1+1.., then the index, then
\* the first result slot when there are several results.
callNode(r, op, type, index, first, top1) ==
  LET nargs == Len(type.args)
      nrets == Len(type.rets)
  IN  [ r EXCEPT
          !.nb = pushNode(@, op, nargs,
                          IF nrets = 1 THEN top1 + 1 ELSE 0,
                          first \o slotRefs(top1, nargs) \o <<index>>
                            \o (IF nrets > 1 THEN <<top1 + 1>> ELSE <<>>),
                          r.stackTop, Len(first) + nargs),
          !.stackTop = top1 + nrets ]

\* case Op.call
handleCall(r, bs) ==
  LET funcIndex == readU32LEB(bs, r.p)
      r1 == [r EXCEPT !.p = funcIndex.next]
  IN  IF isDead(r.blocks) THEN r1
      ELSE IF ~HasFunc(funcIndex.value)
      THEN throw(r1, "TypeError: undefined is not iterable")
      ELSE callNode(r1, Op.call, FuncAt(funcIndex.value), funcIndex.value,
                    <<>>, r.stackTop - Len(FuncAt(funcIndex.value).args))

\* case Op.call_indirect
handleCallIndirect(r, bs) ==
  LET typeIndex == readU32LEB(bs, r.p)
      tableIndex == readU32LEB(bs, typeIndex.next)
      r1 == [r EXCEPT !.p = tableIndex.next]
  IN  IF tableIndex.value # 0 THEN throw(r1, "Unsupported table index")
      ELSE IF isDead(r.blocks) THEN r1
      ELSE IF ~HasType(typeIndex.value)
      THEN throw(r1, "TypeError: undefined is not iterable")
      ELSE LET type == TypeAt(typeIndex.value)
               top1 == r.stackTop - (Len(type.args) + 1)
           IN  callNode(r1, Op.call_indirect, type, typeIndex.value,
                        <<0 - (top1 + Len(type.args) + 1)>>, top1)

\* case Op.select
handleSelect(r) ==
  LET T == r.stackTop
      top1 == T - 2
  IN  IF isDead(r.blocks) THEN r
      ELSE [ r EXCEPT
               !.nb = pushNode(pushUnary(@, Op.BOOL, T, T), Op.select, 3,
                               top1,
                               <<0 - (top1 + 2), 0 - top1, 0 - (top1 + 1)>>,
                               T, 3),
               !.stackTop = top1 ]

\* case Op.i32_const
handleI32Const(r, bs) ==
  LET c == readI32LEB(bs, r.p)
  IN  IF isDead(r.blocks) THEN [r EXCEPT !.p = c.next]
      ELSE [ r EXCEPT
               !.nb = pushNode(@, Op.i32_const, 0, r.stackTop + 1,
                               <<c.value>>, r.stackTop, 0),
               !.stackTop = @ + 1, !.p = c.next ]

\* case Op.i64_const
handleI64Const(r, bs) ==
  LET c == readI64LEB(bs, r.p)
  IN  IF isDead(r.blocks) THEN [r EXCEPT !.p = c.next]
      ELSE [ r EXCEPT
               !.nb = pushConstant(
                        pushNode(@, Op.i64_const, 0, r.stackTop + 1,
                                 <<Len(r.nb.consts)>>, r.stackTop, 0),
                        c.value),
               !.stackTop = @ + 1, !.p = c.next ]

\* case Op.f32_const (size = 4), case Op.f64_const (size = 8)
handleFloatConst(r, op, size) ==
  IF isDead(r.blocks) THEN [r EXCEPT !.p = @ + size]
  ELSE [ r EXCEPT
           !.nb = pushNode(@, op, 0, r.stackTop + 1, <<r.base + r.p>>,
                           r.stackTop, 0),
           !.stackTop = @ + 1, !.p = @ + size ]

\* the node of memory.copy and of memory.fill
memoryNode(r, op, words) ==
  IF isDead(r.blocks) THEN r
  ELSE [ r EXCEPT
           !.nb = pushNode(@, op, 3, r.stackTop - 2, words, r.stackTop, 3),
           !.stackTop = @ - 2 ]

\* case 0xFC
handleFC(r, bs) ==
  LET op == Byte(bs, r.p)
      r1 == [r EXCEPT !.p = @ + 1]
      top1 == r.stackTop - 2
  IN
  IF op <= Op.i64_trunc_sat_f64_u THEN
    IF isDead(r.blocks) THEN r1
    ELSE [r1 EXCEPT !.nb = pushUnary(@, op, r.stackTop, r.stackTop)]
  ELSE IF op = Op.memory_copy THEN
    IF Byte(bs, r1.p) # 0
    THEN throw([r1 EXCEPT !.p = @ + 1], "Unsupported non-zero memory index")
    ELSE IF Byte(bs, r1.p + 1) # 0
    THEN throw([r1 EXCEPT !.p = @ + 2], "Unsupported non-zero memory index")
    ELSE memoryNode([r1 EXCEPT !.p = @ + 2], op,
                    <<0 - top1, 0 - (top1 + 1), 0 - (top1 + 2)>>)
  ELSE IF op = Op.memory_fill THEN
    IF Byte(bs, r1.p) # 0
    THEN throw([r1 EXCEPT !.p = @ + 1], "Unsupported non-zero memory index")
    ELSE memoryNode([r1 EXCEPT !.p = @ + 1], op,
                    <<0 - (top1 + 1), 0 - top1, 0 - (top1 + 2)>>)
  ELSE throw(r1, "Unsupported instruction: 0xFC")

\* A default case that lets an instruction of a dead block pass.
handleDefaultLive(r) ==
  IF isDead(r.blocks) THEN r ELSE throw(r, "Unsupported instruction")

\* default
handleDefault(r) == throw(r, "Unsupported instruction")

(***************************************************************************)
(* The instruction stream                                                  *)
(***************************************************************************)
\* The function types a compiled function of the module may have
\* (typeSection[functionSection[codeIndex]]).
OwnTypes == {0, 1}

\* The encodings of the instructions the stream is made of.
Menu ==
  { <<0>>,                                     \* unreachable
    <<2, 64>>, <<2, 127>>, <<3, 64>>,          \* block, loop
    <<4, 64>>, <<4, 6>>,                       \* if, if (param i32)
    <<5>>, <<11>>,                             \* else, end
    <<12, 0>>, <<13, 0>>, <<14, 1, 0, 0>>,     \* br, br_if, br_table
    <<15>>,                                    \* return
    <<16, 1>>, <<16, 3>>, <<16, 4>>, <<16, 5>>,    \* call
    <<16, 7>>,
    <<17, 1, 0>>, <<17, 0, 1>>,                \* call_indirect
    <<17, 2, 0>>,
    <<26>>, <<27>>, <<28, 1, 127>>,            \* drop, select, select t
    <<32, 0>>, <<33, 0>>,                      \* local.get, local.set
    <<40, 2, 0>>, <<54, 2, 0>>,                \* i32.load, i32.store
    <<64, 0>>, <<64, 1>>, <<63, 1>>,           \* memory.grow, memory.size
    <<65, 5>>, <<66, 7>>,                      \* i32.const, i64.const
    <<67, 0, 0, 0, 0>>, <<68, 0, 0, 0, 0, 0, 0, 0, 0>>,
    <<73>>, <<106>>,                           \* i32.lt_u, i32.add
    <<134>>,                                   \* i64.shl
    <<179>>,                                   \* f32.convert_i32_u
    <<252, 0>>,                                \* i32.trunc_sat_f32_s
    <<252, 10, 0, 0>>, <<252, 11, 0>>,         \* memory.copy, memory.fill
    <<252, 10, 0, 1>>, <<252, 11, 1>>,
    <<252, 8, 0, 0>> }                         \* memory.init

\* The encodings drawn where validation has found the code unreachable: there
\* every instruction is valid whatever the operand stack holds.
UnreachableMenu ==
  { <<0>>, <<2, 64>>, <<3, 64>>, <<4, 64>>, <<5>>, <<11>>,
    <<12, 0>>, <<13, 0>>, <<14, 1, 0, 0>>, <<15>>,
    <<16, 1>>, <<17, 1, 0>>, <<26>>, <<27>>, <<40, 2, 0>>, <<65, 5>>,
    <<66, 7>>, <<67, 0, 0, 0, 0>>, <<106>>, <<252, 0>>, <<252, 10, 0, 0>>,
    <<28, 1, 127>>, <<252, 8, 0, 0>>,
    <<64, 1>>, <<63, 1>>, <<17, 0, 1>>, <<252, 10, 0, 1>>, <<252, 11, 1>>,
    <<4, 6>>, <<179>>,
    <<65, 255, 255, 255, 255, 7>>,
    <<66, 255, 255, 255, 255, 255, 255, 255, 255, 255, 0>> }

\* the bytes the decoder reads from: what was left unread, then the
\* instruction
Bytes(enc) == pending \o enc

\* bytes[bytesPtr++], the opcode
Opcode(enc) == Bytes(enc)[1]

\* while (bytesPtr < codeEnd): there is another instruction to read
Ready(enc) ==
  /\ status = "decoding"
  /\ nInstr < MaxInstr
  /\ ~val.done
  /\ val.frames[Len(val.frames)].dead => enc \in UnreachableMenu
  /\ validate(val, enc).ok

\* the validation state after the instruction
Valid(enc) == validate(val, enc).v

\* the instruction bs names a memory or a table other than the first one
NonZeroIndex(bs) ==
  \/ bs[1] \in {Op.memory_size, Op.memory_grow} /\ bs[2] # 0
  \/ bs[1] = Op.call_indirect /\ bs[3] # 0
  \/ bs[1] = 252 /\ bs[2] = Op.memory_copy /\ (bs[3] # 0 \/ bs[4] # 0)
  \/ bs[1] = 252 /\ bs[2] = Op.memory_fill /\ bs[3] # 0

\* the values a handler starts from
Start ==
  [ stackTop |-> stackTop, blocks |-> blocks,
    nb |-> [ast |-> ast, ptrs |-> astPtrs, next |-> astNextPtr,
            notes |-> notes, consts |-> constants],
    body |-> body, stackLimit |-> stackLimit, nextLabel |-> nextLabel,
    p |-> 1, base |-> bytesPtr, err |-> "", test |-> SlotVar(0),
    label |-> 0, fin |-> NoFin ]

\* the state after a handler that ended in r, v the validation state after
\* the instruction
Commit(enc, r, v) ==
  /\ stackTop' = r.stackTop
  /\ blocks' = r.blocks
  /\ ast' = r.nb.ast
  /\ astPtrs' = r.nb.ptrs
  /\ astNextPtr' = r.nb.next
  /\ constants' = r.nb.consts
  /\ notes' = r.nb.notes
  /\ body' = r.body
  /\ stackLimit' = r.stackLimit
  /\ nextLabel' = r.nextLabel
  /\ pending' = SubSeq(Bytes(enc), r.p + 1, Len(Bytes(enc)))
  /\ bytesPtr' = bytesPtr + r.p
  /\ status' = IF r.err # "" THEN "threw" ELSE "decoding"
  /\ error' = r.err
  /\ nInstr' = nInstr + 1
  /\ val' = v
  /\ peakTop' = IF r.err = "" /\ r.blocks # <<>> /\ ~isDead(r.blocks)
                THEN Max(peakTop, r.stackTop) ELSE peakTop
  /\ last' = [ enc |-> enc, bytes |-> Bytes(enc), op |-> Opcode(enc),
               dead |-> isDead(blocks),
               top |-> stackTop, depth |-> Len(blocks),
               nptrs |-> Len(astPtrs), bodyLen |-> Len(body),
               region |-> \E i \in 1..Len(blocks) : blocks[i].isDead_,
               frames |-> blocks,
               nonZeroIndex |-> last.nonZeroIndex
                                  \/ NonZeroIndex(Bytes(enc)) ]
  /\ fin' = r.fin
  /\ UNCHANGED << funcType, menu, call >>

\* The validation state before the first instruction.
outerFrame(ft) ==
  [ stack |-> <<>>,
    frames |-> << [ base |-> 0, dead |-> FALSE, params |-> <<>>,
                    results |-> TypeAt(ft).rets, kind |-> "func" ] >>,
    done |-> FALSE ]

\* compileCode of a function of type ft, before the first instruction: the
\* values a handler works on
Fresh(ft) ==
  [ stackTop |-> 0,
    blocks |-> << [ argCount_ |-> 0, isDead_ |-> FALSE,
                    kind_ |-> BlockKind.Normal, labelBreak_ |-> -1,
                    labelContinueOrElse_ |-> -1, parentStackTop_ |-> 0,
                    returnCount_ |-> Len(TypeAt(ft).rets) ] >>,
    nb |-> [ast |-> <<>>, ptrs |-> <<>>, next |-> 0, notes |-> <<>>,
            consts |-> <<>>],
    body |-> <<Tk("label", 0, <<>>), Tk("{", 0, <<>>)>>,
    stackLimit |-> 0, nextLabel |-> 0,
    p |-> 1, base |-> 0, err |-> "", test |-> SlotVar(0),
    label |-> 0, fin |-> NoFin ]

\* The compilation of a function of type ft stands at r, the validation of
\* its body at v, after read bytes; its instructions are drawn from m.
Begin(ft, m, r, v, read) ==
  /\ funcType = ft
  /\ menu = m
  /\ pending = <<>>
  /\ bytesPtr = read
  /\ blocks = r.blocks
  /\ stackTop = r.stackTop
  /\ stackLimit = r.stackLimit
  /\ nextLabel = r.nextLabel
  /\ ast = r.nb.ast
  /\ astPtrs = r.nb.ptrs
  /\ astNextPtr = r.nb.next
  /\ constants = r.nb.consts
  /\ body = r.body
  /\ status = "decoding"
  /\ error = ""
  /\ nInstr = 0
  /\ val = v
  /\ notes = r.nb.notes
  /\ last = [ enc |-> <<>>, bytes |-> <<>>, op |-> -1, dead |-> FALSE,
              top |-> 0,
              depth |-> 0, nptrs |-> 0, bodyLen |-> 0, region |-> FALSE,
              frames |-> <<>>, nonZeroIndex |-> FALSE ]
  /\ peakTop = 0
  /\ fin = NoFin
  /\ call = NoCall

Init == \E ft \in OwnTypes : Begin(ft, Menu, Fresh(ft), outerFrame(ft), 0)

\* the encodings the stream may continue with: the loop reads on while the
\* compilation has not ended
Readable == IF status = "decoding" THEN menu ELSE {}

\* switch (op): the instruction read next takes the case of opcode op
Reads(enc, op) ==
  /\ Opcode(enc) = op
  /\ ~HasFlag(metaTable[op], MetaFlag.Simple)
  /\ Ready(enc)

\* One action for each branch of the main loop.
Simple ==
  \E enc \in Readable :
    /\ HasFlag(metaTable[Opcode(enc)], MetaFlag.Simple)
    /\ Ready(enc)
    /\ Commit(enc, handleSimple(Start, Bytes(enc), Opcode(enc)), Valid(enc))

Unreachable ==
  \E enc \in Readable :
    /\ Reads(enc, Op.unreachable)
    /\ Commit(enc, handleUnreachable(Start), Valid(enc))

Block ==
  \E enc \in Readable :
    /\ Reads(enc, Op.block)
    /\ Commit(enc, handleBlock(Start, Bytes(enc)), Valid(enc))

Loop ==
  \E enc \in Readable :
    /\ Reads(enc, Op.loop)
    /\ Commit(enc, handleLoop(Start, Bytes(enc)), Valid(enc))

If ==
  \E enc \in Readable :
    /\ Reads(enc, Op.if)
    /\ Commit(enc, handleIf(Start, Bytes(enc)), Valid(enc))

Else ==
  \E enc \in Readable :
    /\ Reads(enc, Op.else)
    /\ Commit(enc, handleElse(Start), Valid(enc))

End ==
  \E enc \in Readable :
    /\ Reads(enc, Op.end)
    /\ Commit(enc, handleEnd(Start), Valid(enc))

Br ==
  \E enc \in Readable :
    /\ Reads(enc, Op.br)
    /\ Commit(enc, handleBr(Start, Bytes(enc)), Valid(enc))

BrIf ==
  \E enc \in Readable :
    /\ Reads(enc, Op.br_if)
    /\ Commit(enc, handleBrIf(Start, Bytes(enc)), Valid(enc))

BrTable ==
  \E enc \in Readable :
    /\ Reads(enc, Op.br_table)
    /\ Commit(enc, handleBrTable(Start, Bytes(enc)), Valid(enc))

Return ==
  \E enc \in Readable :
    /\ Reads(enc, Op.return)
    /\ Commit(enc, handleReturn(Start), Valid(enc))

Call ==
  \E enc \in Readable :
    /\ Reads(enc, Op.call)
    /\ Commit(enc, handleCall(Start, Bytes(enc)), Valid(enc))

CallIndirect ==
  \E enc \in Readable :
    /\ Reads(enc, Op.call_indirect)
    /\ Commit(enc, handleCallIndirect(Start, Bytes(enc)), Valid(enc))

Select ==
  \E enc \in Readable :
    /\ Reads(enc, Op.select)
    /\ Commit(enc, handleSelect(Start), Valid(enc))

I32Const ==
  \E enc \in Readable :
    /\ Reads(enc, Op.i32_const)
    /\ Commit(enc, handleI32Const(Start, Bytes(enc)), Valid(enc))

I64Const ==
  \E enc \in Readable :
    /\ Reads(enc, Op.i64_const)
    /\ Commit(enc, handleI64Const(Start, Bytes(enc)), Valid(enc))

F32Const ==
  \E enc \in Readable :
    /\ Reads(enc, Op.f32_const)
    /\ Commit(enc, handleFloatConst(Start, Op.f32_const, 4), Valid(enc))

F64Const ==
  \E enc \in Readable :
    /\ Reads(enc, Op.f64_const)
    /\ Commit(enc, handleFloatConst(Start, Op.f64_const, 8), Valid(enc))

\* case 0xFC
PrefixFC ==
  \E enc \in Readable :
    /\ Reads(enc, 252)
    /\ Commit(enc, handleFC(Start, Bytes(enc)), Valid(enc))

\* the opcodes the switch has a case for
Cases ==
  {Op.unreachable, Op.block, Op.loop, Op.if, Op.else, Op.end, Op.br,
   Op.br_if, Op.br_table, Op.return, Op.call, Op.call_indirect, Op.select,
   Op.i32_const, Op.i64_const, Op.f32_const, Op.f64_const, 252}

Default ==
  \E enc \in Readable :
    /\ Opcode(enc) \notin Cases
    /\ Reads(enc, Opcode(enc))
    /\ Commit(enc, handleDefault(Start), Valid(enc))

\* The end of the code: the deep-stack check, then the function is built.
Finish ==
  /\ status = "decoding"
  /\ val.done
  /\ pending = <<>>
  /\ status' = IF stackLimit > 255 THEN "threw" ELSE "returned"
  /\ error' = IF stackLimit > 255 THEN "Deep stacks are not supported" ELSE ""
  /\ UNCHANGED << funcType, pending, bytesPtr, blocks, stackTop, stackLimit,
                  nextLabel, ast, astPtrs, astNextPtr, constants, body,
                  menu, nInstr, val, notes, last, peakTop, fin, call >>

Next ==
  \/ Simple
  \/ Unreachable
  \/ Block
  \/ Loop
  \/ If
  \/ Else
  \/ End
  \/ Br
  \/ BrIf
  \/ BrTable
  \/ Return
  \/ Call
  \/ CallIndirect
  \/ Select
  \/ I32Const
  \/ I64Const
  \/ F32Const
  \/ F64Const
  \/ PrefixFC
  \/ Default
  \/ Finish

Spec == Init /\ [][Next]_vars

(***************************************************************************)
(* Control flow in deep nesting.  The body starts with n block             *)
(* instructions, each with the empty block type, n from NestDepths, and    *)
(* possibly a block (result i32): compileCode stands after them when the   *)
(* instructions of FlowMenu are drawn.                                     *)
(***************************************************************************)
NestDepths == {0, 254, 255, 256}

FlowTypes == {0, 1, 4}

FlowMenu ==
  { <<0>>,                                     \* unreachable
    <<2, 64>>, <<2, 127>>,                     \* block
    <<3, 64>>, <<3, 6>>,                       \* loop, loop (param i32)
    <<4, 64>>, <<5>>, <<11>>,                  \* if, else, end
    <<12, 0>>, <<12, 1>>, <<12, 2>>,           \* br
    <<13, 0>>, <<14, 1, 1, 0>>,                \* br_if, br_table
    <<15>>,                                    \* return
    <<65, 5>> }                                \* i32.const

\* one more block instruction, read by the decoder and by the validation
nestOne(s) ==
  [ r |-> handleBlock([s.r EXCEPT !.p = 1], <<Op.block, 64>>),
    v |-> validate(s.v, <<Op.block, 64>>).v ]

\* n more block instructions (the recursion halves n: TLC's evaluation is
\* recursive too, and 256 nested evaluations are too deep for it)
RECURSIVE nestedBy(_, _)
nestedBy(s, n) ==
  IF s.r.err # "" \/ n = 0 THEN s
  ELSE IF n = 1 THEN nestOne(s)
  ELSE nestedBy(nestedBy(s, n \div 2), n - (n \div 2))

\* one more block instruction with the block type i32
nestResult(s) ==
  [ r |-> handleBlock([s.r EXCEPT !.p = 1], <<Op.block, 127>>),
    v |-> validate(s.v, <<Op.block, 127>>).v ]

\* after n block instructions and, when inner holds, a block (result i32)
FlowStart(ft, n, inner) ==
  IF inner
  THEN nestResult(nestedBy([r |-> Fresh(ft), v |-> outerFrame(ft)], n))
  ELSE nestedBy([r |-> Fresh(ft), v |-> outerFrame(ft)], n)

\* compileCode and the validation stand after these instructions
FlowInit ==
  \E ft \in FlowTypes : \E n \in NestDepths : \E inner \in BOOLEAN :
    Begin(ft, FlowMenu, FlowStart(ft, n, inner).r, FlowStart(ft, n, inner).v,
          2 * n + (IF inner THEN 2 ELSE 0))

FlowNext ==
  \/ Unreachable
  \/ Block
  \/ Loop
  \/ If
  \/ Else
  \/ End
  \/ Br
  \/ BrIf
  \/ BrTable
  \/ Return
  \/ I32Const

FlowSpec == FlowInit /\ [][FlowNext]_vars

(***************************************************************************)
(* Constants.  The bodies are made of i32.const and i64.const              *)
(* instructions whose encodings are one to five and one to ten bytes       *)
(* long, and of unreachable, which ends the basic block.                   *)
(***************************************************************************)
ConstMenu ==
  { <<0>>,
    <<65, 5>>, <<65, 64>>, <<65, 127>>,
    <<65, 128, 1>>, <<65, 255, 126>>,
    <<65, 128, 128, 1>>,
    <<65, 128, 128, 128, 127>>,
    <<65, 128, 128, 128, 128, 1>>,
    <<65, 255, 255, 255, 255, 7>>,
    <<65, 128, 128, 128, 128, 120>>,
    <<66, 7>>, <<66, 127>>,
    <<66, 255, 126>>,
    <<66, 128, 128, 128, 128, 16>>,
    <<66, 128, 128, 128, 128, 128, 128, 128, 128, 64>>,
    <<66, 128, 128, 128, 128, 128, 128, 128, 128, 128, 127>>,
    <<66, 255, 255, 255, 255, 255, 255, 255, 255, 255, 0>>,
    <<124>>, <<172>>, <<173>> }  \* i64.add, i64.extend_i32_s, i64.extend_i32_u

ConstInit ==
  \E ft \in OwnTypes : Begin(ft, ConstMenu, Fresh(ft), outerFrame(ft), 0)

ConstNext ==
  \/ Simple
  \/ Unreachable
  \/ I32Const
  \/ I64Const

ConstSpec == ConstInit /\ [][ConstNext]_vars

(***************************************************************************)
(* The entry points of the module.  A caller calls one entry point after   *)
(* the other.  What the caller holds when the call returns is call.how: a  *)
(* promise, a boolean, or an exception thrown at it; call.promise is the   *)
(* state of that promise.  An async function returns a pending promise at  *)
(* its first await and goes on in a later turn of the event loop.          *)
(***************************************************************************)
MaxCalls == 3

Inputs == {"bytes", "module"}

\* new Module(bytes): the parser throws on bytes that are not a module
\* (validate catches exactly this).
Module(parseOk) == [threw |-> ~parseOk]

\* new Instance(input, importObject): the linker throws on imports that do
\* not fit.
Instance(linkOk) == [threw |-> ~linkOk]

Threw == [how |-> "threw", promise |-> ""]

\* Promise.resolve(value)
Resolved == [how |-> "promise", promise |-> "fulfilled"]

\* export function compile(bytes)
compile(parseOk) ==
  IF Module(parseOk).threw THEN Threw ELSE Resolved

\* export function instantiate(input, importObject)
instantiate(input, parseOk, linkOk) ==
  IF input = "module"
  THEN IF Instance(linkOk).threw THEN Threw ELSE Resolved
  ELSE IF Module(parseOk).threw THEN Threw
  ELSE IF Instance(linkOk).threw THEN Threw
  ELSE Resolved

\* new Module(input) in compile, validate and instantiate: the argument is
\* the parameter of the entry point, which holds bytes
newModule == [new |-> "Module", arg |-> "input", holds |-> "bytes"]

\* the constructor calls of instantiate(input, importObject), in order, each
\* with the variable passed to it and what the variable holds: both
\* new Instance(...) expressions pass the parameter input
constructed(input, parseOk) ==
  IF input = "module"
  THEN << [new |-> "Instance", arg |-> "input", holds |-> "module"] >>
  ELSE IF Module(parseOk).threw THEN << newModule >>
  ELSE << newModule, [new |-> "Instance", arg |-> "input", holds |-> "bytes"] >>

\* export function validate(bytes)
validateBytes(parseOk) ==
  [how |-> IF Module(parseOk).threw THEN "false" ELSE "true", promise |-> ""]

\* return x in an async function, x the outcome of a call: an exception
\* rejects the promise of the async function, a promise settles it.
AsyncReturn(x) ==
  IF x.how = "threw" THEN "rejected" ELSE x.promise

Opened(entry, input, sourceOk, parseOk, linkOk) ==
  [ entry |-> entry, input |-> input, sourceOk |-> sourceOk,
    parseOk |-> parseOk, linkOk |-> linkOk, pc |-> "done",
    how |-> "", promise |-> "", built |-> <<>>, calls |-> call.calls + 1 ]

Idle == call.pc = "idle" /\ call.calls < MaxCalls

ApiFrame ==
  UNCHANGED << funcType, pending, bytesPtr, blocks, stackTop, stackLimit,
               nextLabel, ast, astPtrs, astNextPtr, constants, body, status,
               error, menu, nInstr, val, notes, last, peakTop, fin >>

CallCompile ==
  /\ Idle
  /\ \E parseOk \in BOOLEAN :
       call' = [Opened("compile", "bytes", TRUE, parseOk, TRUE)
                  EXCEPT !.how = compile(parseOk).how,
                         !.promise = compile(parseOk).promise,
                         !.built = << newModule >>]
  /\ ApiFrame

CallInstantiate ==
  /\ Idle
  /\ \E input \in Inputs : \E parseOk \in BOOLEAN : \E linkOk \in BOOLEAN :
       /\ input = "module" => parseOk
       /\ call' = [Opened("instantiate", input, TRUE, parseOk, linkOk)
                    EXCEPT !.how = instantiate(input, parseOk, linkOk).how,
                           !.promise =
                             instantiate(input, parseOk, linkOk).promise,
                           !.built = constructed(input, parseOk)]
  /\ ApiFrame

CallValidate ==
  /\ Idle
  /\ \E parseOk \in BOOLEAN :
       call' = [Opened("validate", "bytes", TRUE, parseOk, TRUE)
                  EXCEPT !.how = validateBytes(parseOk).how,
                         !.built = << newModule >>]
  /\ ApiFrame

\* compileStreaming and instantiateStreaming up to "await source"
CallStreaming ==
  /\ Idle
  /\ \E entry \in {"compileStreaming", "instantiateStreaming"} :
     \E sourceOk \in BOOLEAN : \E parseOk \in BOOLEAN : \E linkOk \in BOOLEAN :
       /\ entry = "compileStreaming" => linkOk
       /\ call' = [Opened(entry, "bytes", sourceOk, parseOk, linkOk)
                    EXCEPT !.pc = "source", !.how = "promise",
                           !.promise = "pending"]
  /\ ApiFrame

\* "const bytes = await source" settles; the function goes on to
\* "await bytes.arrayBuffer()"
AwaitSource ==
  /\ call.pc = "source"
  /\ call' = IF call.sourceOk THEN [call EXCEPT !.pc = "arrayBuffer"]
             ELSE [call EXCEPT !.pc = "done", !.promise = "rejected"]
  /\ ApiFrame

\* "await bytes.arrayBuffer()" settles; the function returns
\* compile(...) or instantiate(...)
AwaitArrayBuffer ==
  /\ call.pc = "arrayBuffer"
  /\ call' =
       [call EXCEPT
          !.pc = "done",
          !.promise =
            IF call.entry = "compileStreaming"
            THEN AsyncReturn(compile(call.parseOk))
            ELSE AsyncReturn(instantiate("bytes", call.parseOk,
                                         call.linkOk)),
          !.built =
            IF call.entry = "compileStreaming" THEN << newModule >>
            ELSE constructed("bytes", call.parseOk)]
  /\ ApiFrame

\* the caller goes on to its next call
NextCall ==
  /\ call.pc = "done"
  /\ call.calls < MaxCalls
  /\ call' = [call EXCEPT !.pc = "idle"]
  /\ ApiFrame

ApiInit == Begin(0, {}, Fresh(0), outerFrame(0), 0)

ApiNext ==
  \/ CallCompile
  \/ CallInstantiate
  \/ CallValidate
  \/ CallStreaming
  \/ AwaitSource
  \/ AwaitArrayBuffer
  \/ NextCall

ApiSpec == ApiInit /\ [][ApiNext]_vars

(***************************************************************************)
(* The shared AST buffer.  astBufferSingleton is allocated once: at the    *)
(* start of compileCode it holds what the compilations before left in it.  *)
(* ast, in the model, is the part of the buffer written since the start    *)
(* of this compilation; the words above it are those of the history.       *)
(***************************************************************************)
\* one iteration of the main loop on the bytes bs of an instruction
Dispatch(r, bs) ==
  LET op == bs[1] IN
  IF HasFlag(metaTable[op], MetaFlag.Simple) THEN handleSimple(r, bs, op)
  ELSE CASE op = Op.unreachable -> handleUnreachable(r)
         [] op = Op.block -> handleBlock(r, bs)
         [] op = Op.loop -> handleLoop(r, bs)
         [] op = Op.if -> handleIf(r, bs)
         [] op = Op.else -> handleElse(r)
         [] op = Op.end -> handleEnd(r)
         [] op = Op.br -> handleBr(r, bs)
         [] op = Op.br_if -> handleBrIf(r, bs)
         [] op = Op.br_table -> handleBrTable(r, bs)
         [] op = Op.return -> handleReturn(r)
         [] op = Op.call -> handleCall(r, bs)
         [] op = Op.call_indirect -> handleCallIndirect(r, bs)
         [] op = Op.select -> handleSelect(r)
         [] op = Op.i32_const -> handleI32Const(r, bs)
         [] op = Op.i64_const -> handleI64Const(r, bs)
         [] op = Op.f32_const -> handleFloatConst(r, Op.f32_const, 4)
         [] op = Op.f64_const -> handleFloatConst(r, Op.f64_const, 8)
         [] op = 252 -> handleFC(r, bs)
         [] OTHER -> handleDefault(r)

(***************************************************************************)
(* Basic blocks that end near the end of the store: the compilation stands *)
(* in a block whose nodes fill all but the last words of the store, after  *)
(* i32.const 5; drop (a node of two words) some times and then             *)
(* i32.const 5; i32.load; ...; i32.load; drop (a node of three words for   *)
(* each load).                                                             *)
(***************************************************************************)
\* one more instruction bs, read by the decoder and by the validation
oneMore(s, bs) ==
  [ r |-> Dispatch([s.r EXCEPT !.p = 1], bs), v |-> validate(s.v, bs).v ]

\* the instructions of prog, one after the other
RECURSIVE afterAll(_, _)
afterAll(s, prog) ==
  IF prog = <<>> THEN s ELSE afterAll(oneMore(s, Head(prog)), Tail(prog))

\* the words the block holds when the first instruction is drawn
StoreFills == (AstCapacity - 3)..(AstCapacity - 1)

\* the numbers of i32.const 5; drop and of i32.load that leave so many words:
\* words = 2 * pairs + 2 + 3 * loads
PairsFor(words) == (2 * (words - 2)) % 3
LoadsFor(words) == (words - 2 - 2 * PairsFor(words)) \div 3

\* the instructions that wrote them
StoreStart(ft, words) ==
  LET pair == << <<Op.i32_const, 5>>, <<Op.drop>> >>
      pairs == IF PairsFor(words) = 0 THEN <<>>
               ELSE IF PairsFor(words) = 1 THEN pair
               ELSE pair \o pair
      loads == [k \in 1..LoadsFor(words) |-> <<Op.i32_load, 2, 0>>]
  IN  afterAll([r |-> Fresh(ft), v |-> outerFrame(ft)],
               pairs \o << <<Op.i32_const, 5>> >> \o loads
                     \o << <<Op.drop>> >>)

\* the bytes read
StoreRead(words) == 3 * PairsFor(words) + 2 + 3 * LoadsFor(words) + 1

StoreMenu ==
  { <<0>>, <<11>>,                             \* unreachable, end
    <<26>>, <<32, 0>>,                         \* drop, local.get
    <<40, 2, 0>>,                              \* i32.load
    <<65, 5>>, <<106>> }                       \* i32.const, i32.add

StoreInit ==
  \E ft \in OwnTypes : \E words \in StoreFills :
    Begin(ft, StoreMenu, StoreStart(ft, words).r, StoreStart(ft, words).v,
          StoreRead(words))

StoreNext ==
  \/ Simple
  \/ Unreachable
  \/ End
  \/ I32Const
  \/ Finish

StoreSpec == StoreInit /\ [][StoreNext]_vars

\* The buffer an earlier compilation left: it decoded three i32.const 7 and
\* was aborted, or finished, with their nodes in the buffer.
EarlierAst ==
  LET const(r) == handleI32Const([r EXCEPT !.p = 1], <<Op.i32_const, 7>>)
  IN  const(const(const(Fresh(0)))).nb.ast

\* What the buffer may hold when compileCode starts: zeros (no compilation
\* before this one), or the words of an earlier compilation.
Histories == {<<>>, EarlierAst}

\* the buffer whose written part is a, after the history h
Buffer(a, h) == a \o SubSeq(h, Len(a) + 1, Len(h))

\* the values a handler starts from when the history of the buffer is h
StartAfter(h) == [Start EXCEPT !.nb.ast = Buffer(@, h)]

\* The encodings of the instructions of the functions compiled to compare
\* histories.
HistoryMenu ==
  { <<0>>, <<2, 64>>, <<4, 64>>, <<4, 6>>, <<5>>, <<11>>, <<13, 0>>,
    <<26>>, <<32, 0>>, <<65, 5>>, <<66, 7>>, <<106>>, <<134>>, <<179>> }

HistoryInit ==
  \E ft \in OwnTypes : Begin(ft, HistoryMenu, Fresh(ft), outerFrame(ft), 0)

HistoryNext ==
  \/ Simple
  \/ Unreachable
  \/ Block
  \/ If
  \/ Else
  \/ End
  \/ BrIf
  \/ I32Const
  \/ I64Const
  \/ Finish

HistorySpec == HistoryInit /\ [][HistoryNext]_vars

(***************************************************************************)
(* The backward search and the emission of finalizeBasicBlock: code of     *)
(* operands, coercions, memory instructions and tests, decoded from the    *)
(* start of the function, after an i32.const that pushed an address,       *)
(* after unreachable; br_if 0, after block (type 4); i32.const 5, in a     *)
(* block with two results, or after three calls whose results are on the   *)
(* stack.                                                                  *)
(***************************************************************************)
SearchMenu ==
  { <<0>>, <<4, 64>>, <<11>>,                  \* unreachable, if, end
    <<2, 4>>, <<2, 192, 0>>, <<3, 6>>,         \* block (type 4), (type 64), loop
    <<12, 0>>,                                 \* br
    <<16, 1>>, <<17, 2, 0>>, <<27>>,           \* call, call_indirect, select
    <<252, 11, 0>>,                            \* memory.fill
    <<26>>, <<32, 0>>,                         \* drop, local.get
    <<40, 2, 0>>, <<54, 2, 0>>, <<56, 2, 0>>,  \* i32.load, i32.store, f32.store
    <<65, 5>>,                                 \* i32.const
    <<73>>, <<106>>,                           \* i32.lt_u, i32.add
    <<179>> }                                  \* f32.convert_i32_u

\* one i32.const instruction, read by the decoder and by the validation
addressPushed(s) ==
  [ r |-> handleI32Const([s.r EXCEPT !.p = 1], <<Op.i32_const, 5>>),
    v |-> validate(s.v, <<Op.i32_const, 5>>).v ]

\* unreachable, then br_if 0 in the dead code, read by the decoder and by
\* the validation
deadEntered(s) ==
  [ r |-> handleBrIf([handleUnreachable([s.r EXCEPT !.p = 1]) EXCEPT !.p = 1],
                     <<Op.br_if, 0>>),
    v |-> validate(validate(s.v, <<Op.unreachable>>).v, <<Op.br_if, 0>>).v ]

\* block with the block type of type 4, then i32.const 5
blockEntered(s) ==
  addressPushed([ r |-> handleBlock([s.r EXCEPT !.p = 1], <<Op.block, 4>>),
                  v |-> validate(s.v, <<Op.block, 4>>).v ])

\* call 1
calledOnce(s) ==
  [ r |-> handleCall([s.r EXCEPT !.p = 1], <<Op.call, 1>>),
    v |-> validate(s.v, <<Op.call, 1>>).v ]

\* unreachable and br_if 0, then an if with no results in the dead code
deadIfEntered(s) ==
  [ r |-> handleIf([deadEntered(s).r EXCEPT !.p = 1], <<Op.if, 64>>),
    v |-> validate(deadEntered(s).v, <<Op.if, 64>>).v ]

\* the instructions decoded before the first one drawn, by the bytes read
SearchPrefixes == {0, 2, 3, 4, 5, 6}

SearchStart(ft, read) ==
  CASE read = 2 -> addressPushed([r |-> Fresh(ft), v |-> outerFrame(ft)])
    [] read = 3 -> deadEntered([r |-> Fresh(ft), v |-> outerFrame(ft)])
    [] read = 5 -> deadIfEntered([r |-> Fresh(ft), v |-> outerFrame(ft)])
    [] read = 4 -> blockEntered([r |-> Fresh(ft), v |-> outerFrame(ft)])
    [] read = 6 -> calledOnce(calledOnce(calledOnce(
                     [r |-> Fresh(ft), v |-> outerFrame(ft)])))
    [] OTHER -> [r |-> Fresh(ft), v |-> outerFrame(ft)]

SearchInit ==
  \E ft \in OwnTypes : \E read \in SearchPrefixes :
    Begin(ft, SearchMenu, SearchStart(ft, read).r, SearchStart(ft, read).v,
          read)

SearchNext ==
  \/ Simple
  \/ Unreachable
  \/ Block
  \/ Loop
  \/ If
  \/ Br
  \/ End
  \/ Call
  \/ CallIndirect
  \/ Select
  \/ I32Const
  \/ PrefixFC
  \/ Finish

SearchSpec == SearchInit /\ [][SearchNext]_vars

(***************************************************************************)
(* Properties                                                              *)
(***************************************************************************)
\* returnTypes.length of the compiled function
returnCount == Len(TypeAt(funcType).rets)

\* the position in ptrs of the node at ptr, 0 if it is not there
IndexOf(ptrs, ptr) ==
  IF \E i \in 1..Len(ptrs) : ptrs[i] = ptr
  THEN CHOOSE i \in 1..Len(ptrs) : ptrs[i] = ptr
  ELSE 0

\* the opcode and the output slot of the node at ptr, in the last
\* finalizeBasicBlock call
FinOp(ptr) == NodeOp(Read(fin.ast, ptr))
FinSlot(ptr) == NodeOutSlot(Read(fin.ast, ptr))

\* C1: in finalizeBasicBlock, a child of a load, a store, memory_copy or
\* memory_fill is replaced by a pointer only to an i32_const, i64_const or
\* local_get node, and that node is the first live node the backward search
\* met: any other live node stops the search.
C1_MemoryBarrier ==
  \A x \in 1..Len(fin.log) :
    usesTypedArrays(FinOp(fin.log[x].parent)) =>
      /\ FinOp(fin.log[x].child) \in {Op.i32_const, Op.i64_const, Op.local_get}
      /\ ~fin.log[x].skipped

\* a store had one operand inlined (a constant) and kept the slot reference
\* to the other, whose producer, a call, stays a statement of its own
C1_Witness ==
  /\ \E x \in 1..Len(fin.log) : usesTypedArrays(FinOp(fin.log[x].parent))
  /\ \E i, j \in 1..Len(fin.prePtrs) :
       /\ i < j
       /\ usesTypedArrays(FinOp(fin.prePtrs[j]))
       /\ FinOp(fin.prePtrs[i]) = Op.call
       /\ FinSlot(fin.prePtrs[i]) # 0
       /\ fin.ptrs[i] # null
       /\ \E w \in 1..NodeChildCount(Read(fin.ast, fin.prePtrs[j])) :
            Read(fin.ast, fin.prePtrs[j] + w) = 0 - FinSlot(fin.prePtrs[i])

\* C2: a compilation in which stackTop exceeded 255 in a live block returns
\* no function (it fails with the DeepStack error), also when the slots
\* above 255 are never named by an emitted consumer.
C2_DeepStackRejected == status = "returned" => peakTop <= 255

\* C3: the DeepStack error is thrown only if stackTop exceeded 255: a
\* function whose depth reaches 255 at most compiles, whatever instruction
\* is applied at that depth.
C3_NoDeepStackUpTo255 ==
  error = "Deep stacks are not supported" => peakTop > 255

\* C4: while the innermost frame is dead, an instruction other than else and
\* end consumes exactly its immediates, pushes no node and leaves stackTop
\* unchanged.
C4_DeadInstructionsInert ==
  (last.dead /\ last.op \notin {Op.else, Op.end} /\ status # "threw") =>
    /\ pending = <<>>
    /\ Len(astPtrs) = last.nptrs
    /\ stackTop = last.top

\* C5: from the instruction that makes a frame dead to that frame's else or
\* end, nothing is appended to the body, in the regions nested in the dead
\* region too.
C5_DeadRegionsEmitNothing ==
  (/\ last.region
   /\ ~(last.dead /\ last.op \in {Op.else, Op.end})
   /\ status # "threw") =>
    Len(body) = last.bodyLen

\* C6: after every finalizeBasicBlock call, astNextPtr is 0, astPtrs is
\* empty and constants is empty.
C6_FinalizeResets ==
  fin.called => astNextPtr = 0 /\ astPtrs = <<>> /\ constants = <<>>

\* a call that had nodes to emit and a test expression to extract
C6_Witness ==
  /\ fin.called /\ fin.pop /\ fin.extracted
  /\ Len(fin.prePtrs) > 1
  /\ \E i \in 1..Len(fin.prePtrs) : FinOp(fin.prePtrs[i]) = Op.i64_const

\* C7: when the decoder reaches the end of the outermost block in a live
\* state, stackTop is returnTypes.length, and it is returnTypes.length after
\* that end.
C7_OuterEndBalanced ==
  (last.op = Op.end /\ last.depth = 1 /\ ~last.dead /\ status # "threw") =>
    /\ last.top = returnCount
    /\ stackTop = returnCount

\* the header of entry i of astPtrs, and what the decoder meant to write
EntryHeader(i) == Read(ast, astPtrs[i])

\* operand word w of entry i of astPtrs
EntryWord(i, w) == Read(ast, astPtrs[i] + w)

IsCall(op) == op = Op.call \/ op = Op.call_indirect

IsMaskOperand(i, w) ==
  /\ notes[i].op = Op.i64_and
  /\ w = 2
  /\ i > 1
  /\ notes[i - 1].op = Op.i64_const
  /\ notes[i - 1].slot = notes[i].top + 1
  /\ EntryWord(i, w) = 0 - (notes[i].top + 1)

\* C9: every negative child word -k the decoder wrote names a slot k with
\* 1 <= k <= stackTop, stackTop taken when the instruction is decoded, before
\* its operands are popped; the one exception is the i64_and node that masks
\* a shift count, whose second child names the temporary slot stackTop + 1
\* that the i64_const node before it writes.
C9_ChildSlotsLive ==
  \A i \in 1..Len(astPtrs) :
    \A w \in 1..notes[i].kids :
      EntryWord(i, w) < 0 =>
        \/ (1 <= 0 - EntryWord(i, w) /\ 0 - EntryWord(i, w) <= notes[i].top)
        \/ IsMaskOperand(i, w)

\* C9 as it was stated: no node references a slot above the top of the
\* virtual stack.
C9_Original ==
  \A i \in 1..Len(astPtrs) :
    \A w \in 1..notes[i].kids :
      EntryWord(i, w) < 0 =>
        (1 <= 0 - EntryWord(i, w) /\ 0 - EntryWord(i, w) <= notes[i].top)

\* a shift was decoded: its mask reads the temporary, and the shift itself
\* reads two slots of the stack
C9_Witness ==
  /\ \E i \in 1..Len(astPtrs) : IsMaskOperand(i, 2)
  /\ \E i \in 1..Len(astPtrs) :
       /\ notes[i].op = Op.i64_shl
       /\ EntryWord(i, 2) = 0 - notes[i].top

\* C10: when finalizeBasicBlock replaces a child word -k of a consumer by a
\* pointer, the pointer designates a node of the same basic block, pushed
\* before the consumer, whose header has outStackSlot k, and no node pushed
\* between the two has outStackSlot k.
C10_InlinedProducer ==
  \A x \in 1..Len(fin.log) :
    LET e == fin.log[x]
        c == IndexOf(fin.prePtrs, e.parent)
        p == IndexOf(fin.prePtrs, e.child)
    IN  /\ Read(fin.preAst, e.parent + e.word) = 0 - e.slot
        /\ Read(fin.ast, e.parent + e.word) = e.child
        /\ p > 0 /\ c > 0 /\ p < c
        /\ NodeOutSlot(Read(fin.preAst, e.child)) = e.slot
        /\ \A m \in (p + 1)..(c - 1) :
             NodeOutSlot(Read(fin.preAst, fin.prePtrs[m])) # e.slot

\* a comparison had both operands inlined through its coercions: the search
\* for the producer of the first skipped the coercion of the second
C10_Witness ==
  /\ Len(fin.log) >= 4
  /\ \E x \in 1..Len(fin.log) : fin.log[x].skipped


(***************************************************************************)
(* Control flow: the properties of pushBlock and jump, checked under       *)
(* FlowSpec.                                                               *)
(***************************************************************************)
\* the text the last instruction appended to the body
Appended == SubSeq(body, last.bodyLen + 1, Len(body))

\* the tokens of the kinds ks among the appended ones, in order
AppendedOf(ks) == SelectSeq(Appended, LAMBDA tk : tk.t \in ks)

\* the last instruction was decoded in live code and did not throw
LiveStep == last.op # -1 /\ ~last.dead /\ status # "threw"

\* the last instruction pushed a frame
Pushed == status # "threw" /\ last.op \in {Op.block, Op.loop, Op.if}

\* the frame the last instruction pushed, and its index
PushedFrame == blocks[last.depth + 1]

\* C11: a frame pushed onto fewer than 256 frames has labelBreak_ =
\* labelContinueOrElse_ = -1 and is opened by its label b<index> and a
\* compound statement; a frame pushed onto 256 or more frames has a positive
\* labelBreak_, a positive labelContinueOrElse_ when it is a loop or an if
\* and labelContinueOrElse_ = 0 when it is a plain block, and no label of its
\* own: the dispatch loop is opened once, by the frame of index 256.
C11_LabelForms ==
  /\ \A i \in 1..Len(blocks) :
       IF i - 1 < 256
       THEN blocks[i].labelBreak_ = -1 /\ blocks[i].labelContinueOrElse_ = -1
       ELSE /\ blocks[i].labelBreak_ > 0
            /\ blocks[i].labelContinueOrElse_ >= 0
            /\ blocks[i].kind_ # BlockKind.Normal =>
                 blocks[i].labelContinueOrElse_ > 0
  /\ Pushed =>
       /\ last.op = Op.block /\ last.depth >= 256 =>
            PushedFrame.labelContinueOrElse_ = 0
       /\ AppendedOf({"label"}) =
            IF last.depth < 256 THEN <<Tk("label", last.depth, <<>>)>>
            ELSE <<>>
       /\ AppendedOf({"dispatch"}) =
            IF last.depth = 256 THEN <<Tk("dispatch", 256, <<>>)>> ELSE <<>>
       /\ Len(AppendedOf({"{", "for", "if"})) =
            IF last.depth < 256 THEN 1 ELSE 0
       /\ Len(AppendedOf({"case", "ifgoto"})) =
            IF last.depth >= 256 /\ last.op # Op.block THEN 1 ELSE 0
       /\ \A k \in 1..Len(Appended) :
            Appended[k].t \in {"case", "ifgoto"} =>
              Appended[k].n = PushedFrame.labelContinueOrElse_

\* C11 as stated: both labels of a frame pushed onto 256 or more frames are
\* positive.
C11_Original ==
  \A i \in 1..Len(blocks) :
    IF i - 1 < 256
    THEN blocks[i].labelBreak_ = -1 /\ blocks[i].labelContinueOrElse_ = -1
    ELSE blocks[i].labelBreak_ > 0 /\ blocks[i].labelContinueOrElse_ > 0

\* the frame of index 255 was pushed in nested form, and above it a loop
\* opened the dispatch and an if was pushed into it
C11_Witness ==
  /\ Pushed /\ last.op = Op.if /\ last.depth = 257
  /\ blocks[256].labelBreak_ = -1
  /\ blocks[257].kind_ = BlockKind.Loop /\ blocks[257].labelBreak_ = 2
  /\ PushedFrame.labelContinueOrElse_ = 5

\* the frames the jumps of the last instruction go to, in the order of the
\* jumps: indexes into the block stack the instruction started with
Targets ==
  CASE last.op \in {Op.br, Op.br_if} -> <<last.depth - 1 - last.enc[2]>>
    [] last.op = Op.br_table ->
         [k \in 1..(last.enc[2] + 1) |-> last.depth - 1 - last.enc[2 + k]]
    [] last.op \in {Op.else, Op.end} -> <<last.depth - 1>>
    [] last.op = Op.return -> <<0>>
    [] OTHER -> <<>>

\* the jump goes to the start of the frame t: a branch to a loop
ToLoop(t) ==
  /\ last.op \in {Op.br, Op.br_if, Op.br_table}
  /\ last.frames[t + 1].kind_ = BlockKind.Loop

\* the transfers of control the last instruction appended
Transfers == AppendedOf({"break", "continue", "goto", "return"})

\* the transfer the code emits for a jump to the frame t > 0
CodeTransfer(t) ==
  IF ToLoop(t)
  THEN IF t < 256 THEN Tk("continue", t, <<>>)
       ELSE Tk("goto", last.frames[t + 1].labelContinueOrElse_, <<>>)
  ELSE IF t <= 256 THEN Tk("break", t, <<>>)
       ELSE Tk("goto", last.frames[t + 1].labelBreak_, <<>>)

\* the transfer chosen by the mode the frame t > 0 was pushed in
ModeTransfer(t) ==
  IF last.frames[t + 1].labelBreak_ = -1
  THEN Tk(IF ToLoop(t) THEN "continue" ELSE "break", t, <<>>)
  ELSE Tk("goto", IF ToLoop(t) THEN last.frames[t + 1].labelContinueOrElse_
                  ELSE last.frames[t + 1].labelBreak_, <<>>)

\* C12: every live jump (br, br_if, each entry of br_table, the jumps of
\* else and end) emits one transfer; to a frame t > 0 it is 'continue b<t>'
\* for a loop of index below 256 and 'L=<labelContinueOrElse_>;continue' for
\* a loop of index 256 or more, 'break b<t>' for the end of a frame of index
\* up to and including 256 (the frame that opened the dispatch loop b256) and
\* 'L=<labelBreak_>;continue' for the end of a frame of index above 256.
C12_Transfers ==
  LiveStep =>
    /\ Len(Transfers) = Len(Targets)
    /\ \A k \in 1..Len(Targets) :
         Targets[k] > 0 => Transfers[k] = CodeTransfer(Targets[k])

\* C12 as stated: the transfer follows the mode of the target frame, the
\* frame of index 256 included.
C12_Original ==
  LiveStep =>
    /\ Len(Transfers) = Len(Targets)
    /\ \A k \in 1..Len(Targets) :
         Targets[k] > 0 => Transfers[k] = ModeTransfer(Targets[k])

\* a br_table in live code whose entry goes to the end of the frame 256 and
\* whose default goes to the end of the frame 257
C12_Witness ==
  /\ LiveStep /\ last.op = Op.br_table
  /\ Targets = <<256, 257>>
  /\ last.frames[257].labelBreak_ > 0
  /\ Transfers = <<Tk("break", 256, <<>>),
                   Tk("goto", last.frames[258].labelBreak_, <<>>)>>

\* stackTop when the last instruction jumps: br_if and br_table have popped
\* their operand
JumpTop == IF last.op \in {Op.br_if, Op.br_table} THEN last.top - 1
           ELSE last.top

\* the values a jump to the frame t carries: the parameters of a loop, the
\* results of any other frame
Carried(t) ==
  IF ToLoop(t) THEN last.frames[t + 1].argCount_
  ELSE last.frames[t + 1].returnCount_

\* the copies of a jump to the frame t > 0 that carries n values
CopiesTo(t, n) ==
  IF JumpTop = last.frames[t + 1].parentStackTop_ + n THEN <<>>
  ELSE [i \in 1..n |->
          Tk("copy", last.frames[t + 1].parentStackTop_ + i,
             <<JumpTop - n + i>>)]

\* the copies and the transfers the last instruction appended
Moves == AppendedOf({"copy", "break", "continue", "goto", "return"})

\* the copies and the transfers of the jumps from the k-th on
RECURSIVE MovesFrom(_)
MovesFrom(k) ==
  IF k > Len(Targets) THEN <<>>
  ELSE (IF Targets[k] > 0 THEN CopiesTo(Targets[k], Carried(Targets[k]))
        ELSE <<>>)
       \o <<Transfers[k]>> \o MovesFrom(k + 1)

\* C13: a live jump to a loop with n parameters emits, before its transfer,
\* the copies s<parentStackTop_+i> = s<stackTop-n+i>, i = 1..n, in this
\* order, and a live jump to the end of another frame with r results the
\* copies s<parentStackTop_+i> = s<stackTop-r+i>, i = 1..r; it emits no copy
\* exactly when stackTop = parentStackTop_ + n (respectively + r); the
\* instruction emits no other copy.
C13_JumpCopies ==
  (LiveStep /\ Len(Transfers) = Len(Targets)) => Moves = MovesFrom(1)

\* a branch to a loop with one parameter, from a stack that holds a value
\* above it
C13_Witness ==
  /\ LiveStep /\ last.op = Op.br
  /\ ToLoop(Targets[1])
  /\ last.frames[Targets[1] + 1].argCount_ = 1
  /\ \E c \in 1..Len(Appended) :
       /\ Appended[c] = Tk("copy", JumpTop - 1, <<JumpTop>>)
       /\ c < Len(Appended) /\ Appended[c + 1].t \in {"continue", "goto"}

\* the number of values the function returns
ReturnArity == Len(TypeAt(funcType).rets)

\* C14: a live jump to the frame 0 (return, a branch to the outermost frame,
\* the last end) emits 'return;' when the function returns nothing,
\* 'return s<stackTop>;' when it returns one value and, when it returns
\* n >= 2 values, 'return[...]' with the slots stackTop-n+1 .. stackTop in
\* ascending order; no copy precedes the return.
C14_FunctionReturn ==
  (LiveStep /\ Len(Transfers) = Len(Targets)) =>
    /\ \A k \in 1..Len(Targets) :
         Targets[k] = 0 =>
           Transfers[k] =
             IF ReturnArity = 0 THEN Tk("return", 0, <<>>)
             ELSE IF ReturnArity = 1 THEN Tk("return", 1, <<JumpTop>>)
             ELSE Tk("return", ReturnArity,
                     [i \in 1..ReturnArity |-> JumpTop - ReturnArity + i])
    /\ \A j \in 2..Len(Moves) :
         Moves[j].t = "return" => Moves[j - 1].t # "copy"

\* a return in live code from a function with two results, with a value
\* below them on the stack
C14_Witness ==
  /\ LiveStep /\ last.op = Op.return /\ ReturnArity = 2 /\ JumpTop = 3
  /\ Transfers = <<Tk("return", 2, <<2, 3>>)>>
  /\ AppendedOf({"copy"}) = <<>>

(***************************************************************************)
(* The decoder: shift counts, unsupported instructions and indexes.        *)
(***************************************************************************)
\* i64.shl, i64.shr_s, i64.shr_u, i64.rotl, i64.rotr
ShiftOps == {Op.i64_shl, Op.i64_shr_s, Op.i64_shr_u, Op.i64_rotl, Op.i64_rotr}

\* the last instruction was one of them, decoded in live code
ShiftStep == LiveStep /\ last.op \in ShiftOps

\* the nodes n+1, n+2, n+3 of the block are the constant 63 in the slot
\* above the stack top T, the i64_and of the slot T with it, written to the
\* slot T, and the operation op on the slots T-1 and T
MaskNodes(n, T, op) ==
  /\ Len(astPtrs) = n + 3
  /\ NodeOp(EntryHeader(n + 1)) = Op.i64_const
  /\ NodeOutSlot(EntryHeader(n + 1)) = T + 1
  /\ EntryWord(n + 1, 1) \in 0..(Len(constants) - 1)
  /\ constants[EntryWord(n + 1, 1) + 1] = BigInt(63)
  /\ NodeOp(EntryHeader(n + 2)) = Op.i64_and
  /\ NodeChildCount(EntryHeader(n + 2)) = 2
  /\ NodeOutSlot(EntryHeader(n + 2)) = T
  /\ EntryWord(n + 2, 1) = 0 - T
  /\ EntryWord(n + 2, 2) = 0 - (T + 1)
  /\ NodeOp(EntryHeader(n + 3)) = op
  /\ NodeOutSlot(EntryHeader(n + 3)) = T - 1
  /\ EntryWord(n + 3, 1) = 0 - (T - 1)
  /\ EntryWord(n + 3, 2) = 0 - T

\* C15: when i64.shl, i64.shr_s, i64.shr_u, i64.rotl or i64.rotr is decoded
\* in live code, the decoder first writes the constant 63 to the slot above
\* the stack top and replaces the second operand by its bitwise and with that
\* constant, then writes the operation; the table gives this masking to these
\* five opcodes only, and no other instruction adds an i64_and node.
C15_ShiftCountMasked ==
  /\ \A op \in 0..255 :
       HasFlag(metaTable[op], MetaFlag.And63) <=> op \in ShiftOps
  /\ ShiftStep => MaskNodes(last.nptrs, last.top, last.op)
  /\ (LiveStep /\ last.op \notin ShiftOps) =>
       \A i \in (last.nptrs + 1)..Len(astPtrs) :
         NodeOp(EntryHeader(i)) # Op.i64_and

\* the opcodes the claim lists as handled explicitly
HandledOps ==
  {Op.unreachable, Op.block, Op.loop, Op.if, Op.else, Op.end, Op.br,
   Op.br_if, Op.br_table, Op.return, Op.call, Op.call_indirect, Op.select,
   Op.i32_const, Op.i64_const, Op.f32_const, Op.f64_const, 252}

\* the sub-opcodes of the prefix 0xFC that are supported
HandledFC == (0..7) \cup {10, 11}

\* the last instruction read has an unsupported opcode
UnsupportedStep ==
  /\ last.op # -1
  /\ \/ /\ ~HasFlag(metaTable[last.op], MetaFlag.Simple)
        /\ last.op \notin HandledOps
     \/ last.op = 252 /\ last.bytes[2] \notin HandledFC

\* C16: an opcode that metaTable does not flag Simple and that has no case
\* of its own, and the prefix 0xFC followed by a sub-opcode other than
\* 0x00..0x07, 0x0A, 0x0B, end the compilation with an 'Unsupported
\* instruction' error, in a live block and in a dead one; the cases of the
\* switch are the opcodes the claim lists.
C16_UnsupportedRejected ==
  /\ Cases = HandledOps
  /\ UnsupportedStep =>
       /\ status = "threw"
       /\ error \in {"Unsupported instruction", "Unsupported instruction: 0xFC"}

\* an unsupported opcode (select with a type, 0x1C) read in a dead block
C16_Witness ==
  /\ UnsupportedStep /\ last.dead /\ last.op = 28
  /\ status = "threw" /\ error = "Unsupported instruction"

\* C17: a function whose body holds a memory.copy, memory.fill, memory.size
\* or memory.grow with a non-zero memory index, or a call_indirect with a
\* non-zero table index, is never compiled, wherever the instruction stands,
\* in a dead block too.
C17_NonZeroIndexRejected ==
  status = "returned" => ~last.nonZeroIndex

(***************************************************************************)
(* The history of the AST buffer, checked under HistorySpec.               *)
(***************************************************************************)
\* what of a handler's result goes into the emitted function (the body, the
\* declared slots, the error) or into the rest of the compilation; of the
\* buffer, the n words written since the start of the compilation
Outcome(r, n) ==
  [ body |-> r.body, stackLimit |-> r.stackLimit, err |-> r.err,
    stackTop |-> r.stackTop, blocks |-> r.blocks, nextLabel |-> r.nextLabel,
    p |-> r.p, ptrs |-> r.nb.ptrs, next |-> r.nb.next,
    consts |-> r.nb.consts, ast |-> SubSeq(r.nb.ast, 1, n) ]

\* the instruction enc may be the next one of the body
MayFollow(enc) ==
  /\ status = "decoding"
  /\ ~val.done
  /\ val.frames[Len(val.frames)].dead => enc \in UnreachableMenu
  /\ validate(val, enc).ok

\* C18: whatever the buffer held when the compilation started, each
\* instruction of the body has the same outcome: the same text appended to
\* the body, the same slots declared, the same error if any, and the same
\* state for the instructions after it.
C18_HistoryIndependent ==
  \A enc \in menu :
    MayFollow(enc) =>
      \A h \in Histories :
        Outcome(Dispatch(StartAfter(h), Bytes(enc)),
                Len(Dispatch(Start, Bytes(enc)).nb.ast))
          = Outcome(Dispatch(Start, Bytes(enc)),
                    Len(Dispatch(Start, Bytes(enc)).nb.ast))

(***************************************************************************)
(* Constants, checked under ConstSpec.                                     *)
(***************************************************************************)
\* The value of each encoding of ConstMenu by the definition of signed
\* LEB128: for i32.const the integer, for i64.const the value modulo 2^64 as
\* four 16-bit digits, the highest first.
LebValues ==
  { [enc |-> <<65, 5>>, lit |-> <<5>>],
    [enc |-> <<65, 64>>, lit |-> <<0 - 64>>],
    [enc |-> <<65, 127>>, lit |-> <<0 - 1>>],
    [enc |-> <<65, 128, 1>>, lit |-> <<128>>],
    [enc |-> <<65, 255, 126>>, lit |-> <<0 - 129>>],
    [enc |-> <<65, 128, 128, 1>>, lit |-> <<16384>>],
    [enc |-> <<65, 128, 128, 128, 127>>, lit |-> <<0 - 2097152>>],
    [enc |-> <<65, 128, 128, 128, 128, 1>>, lit |-> <<268435456>>],
    [enc |-> <<65, 255, 255, 255, 255, 7>>, lit |-> <<2147483647>>],
    [enc |-> <<65, 128, 128, 128, 128, 120>>,
     lit |-> <<(0 - 2147483647) - 1>>],
    [enc |-> <<66, 7>>, lit |-> <<0, 0, 0, 7>>],
    [enc |-> <<66, 127>>, lit |-> <<65535, 65535, 65535, 65535>>],
    [enc |-> <<66, 255, 126>>, lit |-> <<65535, 65535, 65535, 65407>>],
    [enc |-> <<66, 128, 128, 128, 128, 16>>, lit |-> <<0, 1, 0, 0>>],
    [enc |-> <<66, 128, 128, 128, 128, 128, 128, 128, 128, 64>>,
     lit |-> <<49152, 0, 0, 0>>],
    [enc |-> <<66, 128, 128, 128, 128, 128, 128, 128, 128, 128, 127>>,
     lit |-> <<32768, 0, 0, 0>>],
    [enc |-> <<66, 255, 255, 255, 255, 255, 255, 255, 255, 255, 0>>,
     lit |-> <<32767, 65535, 65535, 65535>>] }

\* the last instruction was an i32.const or an i64.const
ConstStep ==
  last.op \in {Op.i32_const, Op.i64_const} /\ status # "threw"

\* the literal emitted for the last node of the basic block
LastLiteral ==
  emitUnwrapped(ast, constants, astPtrs[Len(astPtrs)], 2).e.imm

\* C19: the literal emitted for an i32.const is the signed 32-bit integer its
\* signed LEB128 immediate encodes (one to five bytes), the literal emitted
\* for an i64.const is the value its immediate encodes (one to ten bytes)
\* modulo 2^64, in [0, 2^64); the decoder reads exactly the bytes of the
\* immediate, in a live block and in a dead one.
C19_ConstLiterals ==
  ConstStep =>
    /\ pending = <<>>
    /\ ~last.dead =>
         /\ Len(astPtrs) = last.nptrs + 1
         /\ \E v \in LebValues : v.enc = last.enc /\ LastLiteral = v.lit

\* an i64.const of ten bytes that encodes -2^63, in live code
C19_Witness ==
  /\ ConstStep /\ ~last.dead /\ pending = <<>>
  /\ last.enc = <<66, 128, 128, 128, 128, 128, 128, 128, 128, 128, 127>>
  /\ LastLiteral = <<32768, 0, 0, 0>>

(***************************************************************************)
(* The entry points, checked under ApiSpec.                                *)
(***************************************************************************)
\* C20: compile and instantiate report a module that fails to parse or to
\* instantiate through a rejected promise: the caller always gets a promise
\* from them, never an exception, as it does from compileStreaming and
\* instantiateStreaming.
C20_FailureRejects ==
  call.entry \in {"compile", "instantiate", "compileStreaming",
                  "instantiateStreaming"} =>
    /\ call.how = "promise"
    /\ (call.pc = "done" /\ ~(call.sourceOk /\ call.parseOk /\ call.linkOk))
         => call.promise = "rejected"

\* the call was instantiate or instantiateStreaming with bytes, and its
\* promise is fulfilled with the pair {module, instance}
PairResolved ==
  /\ call.entry \in {"instantiate", "instantiateStreaming"}
  /\ call.input = "bytes"
  /\ call.pc = "done"
  /\ call.promise = "fulfilled"

\* C21: when instantiate is called with bytes and resolves, the bytes were
\* parsed once, into the module of the pair, and the Instance constructor
\* received that module, a Module as in the branch where a Module is passed.
C21_InstanceFromModule ==
  PairResolved =>
    call.built = << newModule,
                    [new |-> "Instance", arg |-> "module",
                     holds |-> "module"] >>

(***************************************************************************)
(* else and end.                                                           *)
(***************************************************************************)
\* the last instruction was an else, or an end, that did not throw
ElseStep == last.op = Op.else /\ status # "threw"
EndStep == last.op = Op.end /\ status # "threw"

\* the innermost frame when the last instruction was decoded
InnerFrame == last.frames[last.depth]

\* C22: an else finalizes the basic block (its statements come first), emits
\* the jump to the end of the innermost frame if that frame is live and no
\* jump if it is dead, then the text that opens the else branch; it keeps the
\* frame, sets stackTop to parentStackTop_ + argCount_ and clears isDead_,
\* whatever stackTop and isDead_ were.
C22_ElseResets ==
  ElseStep =>
    /\ fin.called /\ ~fin.pop /\ astPtrs = <<>>
    /\ Len(blocks) = last.depth
    /\ stackTop = InnerFrame.parentStackTop_ + InnerFrame.argCount_
    /\ ~blocks[last.depth].isDead_
    /\ Transfers = IF last.dead THEN <<>>
                   ELSE <<CodeTransfer(last.depth - 1)>>
    /\ last.dead => Moves = <<>>
    /\ Len(AppendedOf({"}else{", "case"})) = 1
    /\ Appended = AppendedOf({"stmt"}) \o Moves \o AppendedOf({"}else{", "case"})

\* an else of an if with one parameter, decoded at another stackTop than the
\* one the else branch starts with
C22_Witness ==
  /\ ElseStep /\ InnerFrame.argCount_ = 1
  /\ last.top # stackTop
  /\ stackTop = InnerFrame.parentStackTop_ + 1

\* C23: an end pops exactly one frame, the innermost one, and sets stackTop
\* to that frame's parentStackTop_ + returnCount_, whether the frame was live
\* or dead; the frames below it are left as they were, isDead_ included.
C23_EndPops ==
  EndStep =>
    /\ blocks = SubSeq(last.frames, 1, last.depth - 1)
    /\ stackTop = InnerFrame.parentStackTop_ + InnerFrame.returnCount_

\* the end of a dead frame with one result, in a live parent
C23_Witness ==
  /\ EndStep /\ last.dead /\ last.depth >= 2
  /\ InnerFrame.returnCount_ = 1
  /\ ~isDead(blocks)
  /\ stackTop = last.top + 1

(***************************************************************************)
(* The statements of a basic block.  A statement token [t |-> "stmt", n,   *)
(* e] is the text 's<n>=<e>;' when n is not 0 and '<e>;' when n is 0.      *)
(***************************************************************************)
\* the last instruction called finalizeBasicBlock, which returned
Finalized == fin.called /\ status # "threw"

\* the statements the last instruction appended
Statements == AppendedOf({"stmt"})

\* the entries of astPtrs that are not null after inlining, in the order of
\* astPtrs
NonNull(ptrs) == SelectSeq(ptrs, LAMBDA q : q # null)

\* the same without the entry extracted as the test expression
Kept ==
  NonNull(IF fin.extracted THEN SubSeq(fin.ptrs, 1, Len(fin.ptrs) - 1)
          ELSE fin.ptrs)

\* the statements are those of the nodes ptrs, in this order: the node's
\* expression, assigned to s<outStackSlot> when the slot is not 0 and bare
\* when it is 0
StatementsOf(ptrs) ==
  /\ Len(Statements) = Len(ptrs)
  /\ \A k \in 1..Len(ptrs) :
       /\ Statements[k].n = NodeOutSlot(Read(fin.ast, ptrs[k]))
       /\ Statements[k].e.op = NodeOp(Read(fin.ast, ptrs[k]))

\* C24: finalizeBasicBlock emits one statement for each entry of astPtrs that
\* is not null after inlining, but for the last entry when it is extracted as
\* the test expression, in the order the decoder pushed the entries; the
\* statement assigns to s<outStackSlot> exactly when the outStackSlot of the
\* node's header is not 0 and is a bare expression statement otherwise.
C24_Statements == Finalized => StatementsOf(Kept)

\* C24 as stated: every entry that is not null after inlining is emitted as a
\* statement.
C24_Original == Finalized => StatementsOf(NonNull(fin.ptrs))

\* a basic block that ends with an assigned statement and a bare one, one of
\* whose operands was inlined
C24_Witness ==
  /\ Finalized
  /\ Len(Statements) >= 2
  /\ \E k \in 1..Len(Statements) : Statements[k].n = 0
  /\ \E k \in 1..Len(Statements) : Statements[k].n # 0
  /\ \E k \in 1..Len(fin.ptrs) : fin.ptrs[k] = null

\* the last instruction called finalizeBasicBlock(true), which returned
Extraction == Finalized /\ fin.pop

\* the expression finalizeBasicBlock(true) returned, as the instruction
\* printed it in its test
Returned == AppendedOf({"if", "ifgoto", "switch"})[1].e

\* the entry k of astPtrs is not null after inlining and its outStackSlot is
\* the stackTop of the call
AtTop(k) ==
  /\ fin.ptrs[k] # null
  /\ NodeOutSlot(Read(fin.ast, fin.ptrs[k])) = fin.top

\* the last entry of astPtrs there is
LastEntry == Len(fin.ptrs)

\* the last entry k of astPtrs with AtTop(k), 0 if there is none
LastAtTop ==
  IF \E k \in 1..Len(fin.ptrs) : AtTop(k)
  THEN CHOOSE k \in 1..Len(fin.ptrs) :
         AtTop(k) /\ \A j \in (k + 1)..Len(fin.ptrs) : ~AtTop(j)
  ELSE 0

\* the non-null entries of astPtrs but the entry k
NonNullBut(k) ==
  NonNull(SubSeq(fin.ptrs, 1, k - 1) \o SubSeq(fin.ptrs, k + 1, Len(fin.ptrs)))

\* C25: finalizeBasicBlock(true) looks at the last entry of astPtrs only: if
\* it is not null and its outStackSlot equals stackTop, the call returns the
\* expression of that node, unassigned, and emits no statement for it;
\* otherwise it returns the variable s<stackTop> and emits every non-null
\* entry as a statement.  stackTop is decremented by one in both cases.
C25_Extraction ==
  Extraction =>
    /\ Len(AppendedOf({"if", "ifgoto", "switch"})) = 1
    /\ IF LastEntry > 0 /\ AtTop(LastEntry)
       THEN /\ fin.extracted
            /\ Returned.op = NodeOp(Read(fin.ast, fin.ptrs[LastEntry]))
            /\ StatementsOf(NonNullBut(LastEntry))
       ELSE /\ Returned = SlotVar(fin.top)
            /\ StatementsOf(NonNull(fin.ptrs))
    /\ stackTop = fin.top - 1

\* C25 as stated: the node returned is the last node of the block that is
\* not null and whose outStackSlot equals stackTop, wherever it stands in
\* astPtrs; the variable is returned only if the block has no such node.
C25_Original ==
  Extraction =>
    IF LastAtTop > 0
    THEN /\ Returned.op = NodeOp(Read(fin.ast, fin.ptrs[LastAtTop]))
         /\ StatementsOf(NonNullBut(LastAtTop))
         /\ stackTop = fin.top - 1
    ELSE /\ Returned = SlotVar(fin.top)
         /\ StatementsOf(NonNull(fin.ptrs))

\* an if whose test is the extracted node, after a statement of the same
\* basic block
C25_Witness ==
  /\ Extraction /\ last.op = Op.if /\ ~last.dead
  /\ fin.extracted
  /\ Returned.op = Op.BOOL
  /\ Len(Statements) >= 1
  /\ stackTop = fin.top - 1

(***************************************************************************)
(* The labels of a dispatch region, checked under FlowSpec.                *)
(***************************************************************************)
\* the position in the body of the text that opened the last dispatch loop,
\* 0 if none was opened
LastDispatch ==
  IF \E p \in 1..Len(body) : body[p].t = "dispatch"
  THEN CHOOSE p \in 1..Len(body) :
         /\ body[p].t = "dispatch"
         /\ \A q \in (p + 1)..Len(body) : body[q].t # "dispatch"
  ELSE 0

\* the text of the last dispatch region
Region == SubSeq(body, LastDispatch + 1, Len(body))

\* the token p of the text reg is a case of the switch of a br_table
InTable(reg, p) ==
  \E q \in 1..(p - 1) :
    /\ reg[q].t = "switch"
    /\ \A k \in q..p : reg[k].t # "default"

\* the labels of the 'case <label>:' of the dispatch switch in the text reg,
\* in the order of the text
CasesIn(reg) ==
  LET at == SelectSeq([p \in 1..Len(reg) |-> p],
                      LAMBDA p : reg[p].t = "case" /\ ~InTable(reg, p))
  IN  [k \in 1..Len(at) |-> reg[at[k]].n]

\* those of the last dispatch region
CaseLabels == CasesIn(Region)

\* the labels the frame i of the block stack holds
FrameLabels(i) ==
  {blocks[i].labelBreak_}
    \cup (IF blocks[i].labelContinueOrElse_ # 0
          THEN {blocks[i].labelContinueOrElse_} ELSE {})

\* the frames of the block stack that are in the dispatch region
InRegion == {i \in 1..Len(blocks) : i > 256}

\* C26: in a dispatch region the labels of the frames come from a counter
\* that starts at 2 with the frame of index 256 and only grows: the labels
\* held by the frames are pairwise distinct, none is the entry label 1, a
\* frame pushed later holds greater labels, and each 'case <label>:' of the
\* region's switch is emitted at most once.
C26_RegionLabels ==
  /\ \A i \in InRegion :
       /\ FrameLabels(i) \subseteq 2..(nextLabel - 1)
       /\ blocks[i].labelBreak_ # blocks[i].labelContinueOrElse_
       /\ \A j \in InRegion :
            i < j => \A a \in FrameLabels(i) : \A b \in FrameLabels(j) : a < b
  /\ (Pushed /\ last.depth = 256) => PushedFrame.labelBreak_ = 2
  /\ (Pushed /\ last.depth >= 256) =>
       nextLabel = PushedFrame.labelBreak_
                     + (IF last.op = Op.block THEN 1 ELSE 2)
  /\ LET cases == CaseLabels IN
       LastDispatch > 0 =>
         /\ \A k \in 1..Len(cases) : cases[k] \in 2..(nextLabel - 1)
         /\ \A k \in 1..Len(cases) : \A j \in 1..Len(cases) :
              k # j => cases[k] # cases[j]

\* a loop opened the dispatch region, an if with an else branch was pushed
\* into it, and the end of the if emitted its label
C26_Witness ==
  /\ EndStep /\ last.depth = 258
  /\ last.frames[257].kind_ = BlockKind.Loop
  /\ CaseLabels = <<3, 5, 4>>

(***************************************************************************)
(* Calls.                                                                  *)
(***************************************************************************)
\* the last instruction was a call or a call_indirect decoded in live code
CallStep == LiveStep /\ last.op \in {Op.call, Op.call_indirect}

\* the type of the callee: [argTypes, returnTypes]
Callee ==
  IF last.op = Op.call THEN FuncAt(last.enc[2]) ELSE TypeAt(last.enc[2])

\* the operands a call_indirect pops beside the arguments
Pointer == IF last.op = Op.call_indirect THEN 1 ELSE 0

\* the slot of the first argument popped: the first result slot
FirstSlot == last.top - Pointer - Len(Callee.args) + 1

\* the node the last instruction pushed
CallPtr == astPtrs[Len(astPtrs)]

\* C27: a live call of a function with m parameters and n results changes
\* stackTop by n - m and pushes one node: childCount m, the children name the
\* slots of the arguments in the order of the parameters, the word after them
\* is the function index; the outStackSlot of the header is the first result
\* slot when n = 1 and 0 otherwise; for n >= 2 the statement unpacks the
\* results into the n slots from the slot of the first argument on.  A
\* call_indirect pops the function pointer too, its first child, and its
\* index is the type index.
C27_CallNode ==
  CallStep =>
    LET m == Len(Callee.args)
        n == Len(Callee.rets)
    IN  /\ stackTop = last.top + n - m - Pointer
        /\ Len(astPtrs) = last.nptrs + 1
        /\ NodeOp(Read(ast, CallPtr)) = last.op
        /\ NodeChildCount(Read(ast, CallPtr)) = m
        /\ Pointer = 1 => Read(ast, CallPtr + 1) = 0 - last.top
        /\ \A i \in 1..m :
             Read(ast, CallPtr + Pointer + i) = 0 - (FirstSlot + i - 1)
        /\ Read(ast, CallPtr + Pointer + m + 1) = last.enc[2]
        /\ NodeOutSlot(Read(ast, CallPtr)) = IF n = 1 THEN FirstSlot ELSE 0
        /\ n >= 2 =>
             emitUnwrapped(ast, constants, CallPtr, 2).e.imm
               = <<last.enc[2], FirstSlot, n>>

\* C28: in every node the decoder wrote, the childCount of the header is the
\* number of operand words of the node: the words 1..childCount are its
\* operand references and the payload starts at the word childCount + 1, so
\* that the inlining loop, which visits the words 1..childCount, visits every
\* operand; for the nodes of call_indirect as for all others.
C28_ChildCountIsOperands ==
  \A i \in 1..Len(astPtrs) :
    NodeChildCount(EntryHeader(i)) = notes[i].kids

\* the live nodes a backward search met whose outStackSlot is not the slot
\* searched for
Passed == {x \in 1..Len(fin.met) : fin.met[x].out # fin.met[x].slot}

Coercion(op) == op = Op.TO_U32 \/ op = Op.TO_S64

\* the search ended at the node without inlining
Stops(act) == act \in {"stop", "barrier"}

\* the node is still an entry of astPtrs after the optimization, or it was
\* inlined as the producer of its own slot
StaysListed(node) ==
  LET k == IndexOf(fin.prePtrs, node) IN
    /\ k # 0
    /\ \/ fin.ptrs[k] # null
       \/ \E y \in 1..Len(fin.log) :
            fin.log[y].child = node /\ fin.log[y].slot = FinSlot(node)

\* C29: in the backward search for the producer of slot k, on behalf of a
\* parent that is no load, store, memory_copy or memory_fill, a live TO_U32
\* or TO_S64 node whose outStackSlot differs from k is skipped and the
\* search goes on, the node staying in astPtrs; any other live node whose
\* outStackSlot differs from k ends the search, and so does every such node,
\* the coercions included, when the parent uses the typed arrays.
C29_SkipRule ==
  Finalized =>
    \A x \in Passed :
      LET m == fin.met[x] IN
        IF Coercion(m.op) /\ ~usesTypedArrays(m.parentOp)
        THEN m.act = "skip" /\ StaysListed(m.node)
        ELSE Stops(m.act)

\* the statement with "every parent opcode": a coercion of another slot is
\* skipped whatever the parent is
C29_Original ==
  Finalized =>
    \A x \in Passed :
      LET m == fin.met[x] IN
        IF Coercion(m.op)
        THEN m.act = "skip" /\ StaysListed(m.node)
        ELSE Stops(m.act)

\* the search of a coercion for its operand skipped the coercion of the
\* other operand, which was inlined later as the producer of its own slot,
\* and a search ended at a node that is no coercion
C29_Witness ==
  /\ Finalized
  /\ \E x \in Passed :
       /\ Coercion(fin.met[x].op)
       /\ fin.met[x].act = "skip"
       /\ fin.ptrs[IndexOf(fin.prePtrs, fin.met[x].node)] = null
  /\ \E x \in Passed : ~Coercion(fin.met[x].op) /\ fin.met[x].act = "stop"

\* the operand words of the node at ptr that emitUnwrapped emits
OperandsAt(ptr) ==
  LET offs == OperandWords(FinOp(ptr), NodeChildCount(Read(fin.ast, ptr)))
  IN  [n \in 1..Len(offs) |-> Read(fin.ast, ptr + offs[n])]

\* how often emit(word) emits the node at target: once if word points to
\* it, and once for each time its operands do
RECURSIVE EmitsIn(_, _, _, _)
RECURSIVE Emits(_, _, _)
EmitsIn(words, n, target, fuel) ==
  IF n > Len(words) THEN 0
  ELSE Emits(words[n], target, fuel) + EmitsIn(words, n + 1, target, fuel)

Emits(word, target, fuel) ==
  IF word < 0 \/ fuel = 0 THEN 0
  ELSE (IF word = target THEN 1 ELSE 0)
       + EmitsIn(OperandsAt(word), 1, target, fuel - 1)

\* how often the emission of the entries of astPtrs emits the node at target
EmittedTimes(target) ==
  EmitsIn(NonNull(fin.ptrs), 1, target, Len(fin.ast) + 2)

\* the child words of the block's nodes that point to the node at target
ParentWords(target) ==
  {w \in 1..Len(fin.ast) :
     /\ Read(fin.ast, w) = target
     /\ \E q \in 1..Len(fin.prePtrs) :
          \E n \in 1..Len(OperandsAt(fin.prePtrs[q])) :
            w = fin.prePtrs[q]
                + OperandWords(FinOp(fin.prePtrs[q]),
                               NodeChildCount(Read(fin.ast, fin.prePtrs[q])))[n]}

\* the number of nodes an emitted expression prints
RECURSIVE PrintedIn(_, _)
RECURSIVE Printed(_)
PrintedIn(es, n) ==
  IF n > Len(es) THEN 0 ELSE Printed(es[n]) + PrintedIn(es, n + 1)

Printed(e) == IF e.op = SlotOp THEN 0 ELSE 1 + PrintedIn(e.args, 1)

\* the expressions the call emitted: its statements and the test it returned
Expressions ==
  [k \in 1..Len(Statements) |-> Statements[k].e]
    \o (IF fin.extracted THEN <<Returned>> ELSE <<>>)

C30_Witness ==
  /\ Finalized
  /\ fin.extracted
  /\ Len(fin.prePtrs) >= 4
  /\ Len(Statements) >= 1
  /\ \E k \in 1..Len(fin.ptrs) : fin.ptrs[k] = null

\* the last instruction was a select decoded in live code
SelectStep == LiveStep /\ last.op = Op.select

\* the two nodes a select pushes: the BOOL of the condition, then the select
BoolEntry == Len(astPtrs) - 1
SelectEntry == Len(astPtrs)

\* cond ? first : second, as JavaScript evaluates it
Conditional(cond, first, second) == IF cond # 0 THEN first ELSE second

\* the value of the expression e when the slot s<k> holds slots[k]
SelectValue(e, slots) ==
  Conditional(slots[e.args[1].imm[1]], slots[e.args[2].imm[1]],
              slots[e.args[3].imm[1]])

\* C31: a live select decoded with stackTop = T pushes a BOOL node on the
\* slot T of the condition, then one select node with the three children
\* (slot T, slot T-2, slot T-1) and outStackSlot T-2, and leaves
\* stackTop = T-2; the expression emitted for the node is the first value
\* (slot T-2) when the condition is not zero and the second one otherwise.
C31_SelectNode ==
  SelectStep =>
    LET T == last.top
        e == emitUnwrapped(ast, constants, astPtrs[SelectEntry], 2).e
    IN  /\ stackTop = T - 2
        /\ Len(astPtrs) = last.nptrs + 2
        /\ NodeOp(EntryHeader(BoolEntry)) = Op.BOOL
        /\ NodeChildCount(EntryHeader(BoolEntry)) = 1
        /\ NodeOutSlot(EntryHeader(BoolEntry)) = T
        /\ EntryWord(BoolEntry, 1) = 0 - T
        /\ NodeOp(EntryHeader(SelectEntry)) = Op.select
        /\ NodeChildCount(EntryHeader(SelectEntry)) = 3
        /\ NodeOutSlot(EntryHeader(SelectEntry)) = T - 2
        /\ EntryWord(SelectEntry, 1) = 0 - T
        /\ EntryWord(SelectEntry, 2) = 0 - (T - 2)
        /\ EntryWord(SelectEntry, 3) = 0 - (T - 1)
        /\ e.op = Op.select
        /\ \A c \in {0, 1, 2} :
             SelectValue(e, (T - 2 :> 10) @@ (T - 1 :> 20) @@ (T :> c))
               = IF c # 0 THEN 10 ELSE 20

\* C32: a compilation whose basic block needs more words than the store has
\* fails with an error: when compileCode returns a function, the nodes of the
\* block its last finalizeBasicBlock emitted ended within the store, so that
\* no word of a node was written outside it and lost.
C32_StoreBounded ==
  (status = "returned" /\ fin.called) => fin.preNext <= AstCapacity

\* the instructions that are no control instructions
PlainOps ==
  (0..255) \ {Op.unreachable, Op.block, Op.loop, Op.if, Op.else, Op.end,
              Op.br, Op.br_if, Op.br_table, Op.return}

\* the last instruction was a plain one, decoded in live code
PlainStep == LiveStep /\ last.op \in PlainOps

IsMemoryFC(enc) ==
  enc[1] = 252 /\ enc[2] \in {Op.memory_copy, Op.memory_fill}

\* the stack effect of the instruction in WebAssembly: the results it pushes
\* less the operands it pops
StackEffect(enc) ==
  LET op == enc[1]
      flags == metaTable[op]
  IN  CASE HasFlag(flags, MetaFlag.Simple) ->
             (IF HasFlag(flags, MetaFlag.Push) THEN 1 ELSE 0)
               - (flags % (MetaFlag.PopMask + 1))
        [] op \in {Op.i32_const, Op.i64_const, Op.f32_const, Op.f64_const} -> 1
        [] op = Op.select -> -2
        [] op = Op.call ->
             Len(FuncAt(enc[2]).rets) - Len(FuncAt(enc[2]).args)
        [] op = Op.call_indirect ->
             Len(TypeAt(enc[2]).rets) - Len(TypeAt(enc[2]).args) - 1
        [] op = 252 /\ enc[2] <= Op.i64_trunc_sat_f64_u -> 0
        [] IsMemoryFC(enc) -> -3
        [] OTHER -> 0

\* C33: a plain instruction decoded in a live block changes stackTop by its
\* WebAssembly stack effect: Push less PopMask for the opcodes of the table
\* (with Omit too), +1 for the constants, -2 for select, 0 for the
\* saturating truncations, n - m for the calls, and -3 for memory_copy and
\* memory_fill, whose node has three children and outStackSlot 0.
C33_StackEffect ==
  PlainStep =>
    /\ stackTop = last.top + StackEffect(last.enc)
    /\ IsMemoryFC(last.enc) =>
         /\ NodeChildCount(EntryHeader(Len(astPtrs))) = 3
         /\ NodeOutSlot(EntryHeader(Len(astPtrs))) = 0

\* the copies at the positions a < b of the appended text belong to the same
\* jump: only copies stand between them
SameJump(a, b) ==
  /\ a < b
  /\ \A c \in a..b : Appended[c].t = "copy"

\* the copy at the position b is the last one of its jump
LastCopy(b) ==
  /\ Appended[b].t = "copy"
  /\ b < Len(Appended) => Appended[b + 1].t # "copy"

\* C34: in the slot copies one jump emits, no copy reads a slot that an
\* earlier copy of the same jump has written: the destination of the copy i
\* is not the source of a copy j > i. The copies read the slots on top of
\* the stack at the jump, the last copy the slot stackTop.
C34_CopiesDisjoint ==
  \A a, b \in 1..Len(Appended) :
    /\ SameJump(a, b) => Appended[a].n # Appended[b].l[1]
    /\ (a = b \/ SameJump(a, b)) /\ LastCopy(b)
         => Appended[a].l[1] = JumpTop - (b - a)

\* a branch to the end of a block with two results, from a stack that holds
\* a value below them: s1=s2;s2=s3;
C34_Witness ==
  /\ LiveStep /\ last.op = Op.br
  /\ AppendedOf({"copy"}) = <<Tk("copy", 1, <<2>>), Tk("copy", 2, <<3>>)>>

\* the last instruction was a block, a loop or an if read from its own first
\* byte: the decoder had no byte of an earlier instruction left to read
BlockTypeStep == Pushed /\ last.bytes = last.enc

\* the block type of the last instruction is written as a type index
TypeIndexed == last.enc[2] \notin {64, 127}

\* C35: readBlockType returns, for a block type that is a type index i, the
\* lengths of the parameter and result lists of typeSection[i], for 0x40
\* (0, 0) and for a value type (0, 1), and advances bytesPtr by the length of
\* the encoding: no byte of the instruction is left unread.
C35_BlockType ==
  BlockTypeStep =>
    /\ PushedFrame.argCount_ = Len(blockTypeOf(last.enc).args)
    /\ PushedFrame.returnCount_ = Len(blockTypeOf(last.enc).rets)
    /\ pending = <<>>

\* the same for the type indexes written in one byte
C35_OneByte ==
  BlockTypeStep /\ Len(last.enc) = 2 =>
    /\ PushedFrame.argCount_ = Len(blockTypeOf(last.enc).args)
    /\ PushedFrame.returnCount_ = Len(blockTypeOf(last.enc).rets)
    /\ pending = <<>>

\* a block whose type is the index 4, written in one byte
C35_Witness ==
  /\ BlockTypeStep /\ TypeIndexed /\ Len(last.enc) = 2
  /\ PushedFrame.returnCount_ = 2

(***************************************************************************)
(* The values of the emitted i64 expressions.  A BigInt value is a sign    *)
(* and a magnitude below 2^64, the magnitude as four 16-bit digits, the    *)
(* highest first; a Number that is an i32 is an integer.                   *)
(***************************************************************************)
\* BigInt(n) for an i32 n
NumberToBigInt(n) ==
  IF n = (0 - 2147483647) - 1 THEN [neg |-> TRUE, d |-> <<0, 0, 32768, 0>>]
  ELSE LET m == IF n < 0 THEN 0 - n ELSE n
       IN  [neg |-> n < 0, d |-> <<0, 0, m \div 65536, m % 65536>>]

\* BigInt(n >>> 0) for an i32 n
Uint32ToBigInt(n) ==
  [neg |-> FALSE, d |-> <<0, 0, (n \div 65536) % 65536, n % 65536>>]

\* (a + b) & 0xFFFFFFFFFFFFFFFFn for a and b in [0, 2^64)
AddMasked(a, b) ==
  LET s4 == a.d[4] + b.d[4]
      s3 == a.d[3] + b.d[3] + s4 \div 65536
      s2 == a.d[2] + b.d[2] + s3 \div 65536
      s1 == a.d[1] + b.d[1] + s2 \div 65536
  IN  [neg |-> FALSE,
       d |-> <<s1 % 65536, s2 % 65536, s3 % 65536, s4 % 65536>>]

\* the emitted expression e is built from literals only
RECURSIVE Closed(_)
Closed(e) ==
  /\ e.op \in {Op.i32_const, Op.i64_const, Op.i64_add, Op.i64_extend_i32_s,
               Op.i64_extend_i32_u}
  /\ \A k \in 1..Len(e.args) : Closed(e.args[k])

\* the value of a closed expression, by the text emitUnwrapped prints for
\* its opcode
RECURSIVE ValueOf(_)
ValueOf(e) ==
  CASE e.op = Op.i32_const -> e.imm[1]
    [] e.op = Op.i64_const -> [neg |-> FALSE, d |-> e.imm]
    [] e.op = Op.i64_extend_i32_s -> NumberToBigInt(ValueOf(e.args[1]))
    [] e.op = Op.i64_extend_i32_u -> Uint32ToBigInt(ValueOf(e.args[1]))
    [] e.op = Op.i64_add -> AddMasked(ValueOf(e.args[1]), ValueOf(e.args[2]))

\* the opcodes of the closed expressions that produce an i64
Wide == {Op.i64_const, Op.i64_add, Op.i64_extend_i32_s, Op.i64_extend_i32_u}

\* v is a BigInt in [0, 2^64)
InU64(v) ==
  /\ ~v.neg \/ v.d = <<0, 0, 0, 0>>
  /\ \A k \in 1..4 : v.d[k] \in 0..65535

\* the i64 operands of e are in [0, 2^64)
OperandsInU64(e) ==
  \A k \in 1..Len(e.args) :
    e.args[k].op \in Wide => InU64(ValueOf(e.args[k]))

\* every i64 expression printed within e, whose opcode is in ops, has a
\* value in [0, 2^64) when its operands have
RECURSIVE WithinU64(_, _)
WithinU64(e, ops) ==
  /\ e.op \in ops /\ Closed(e) /\ OperandsInU64(e) => InU64(ValueOf(e))
  /\ \A k \in 1..Len(e.args) : WithinU64(e.args[k], ops)

\* C36: every emitted expression that produces an i64 evaluates to an
\* integer in [0, 2^64) when its operands are in that range, for every
\* opcode that produces an i64, i64.extend_i32_s among them.
C36_Canonical ==
  Finalized =>
    \A k \in 1..Len(Expressions) : WithinU64(Expressions[k], Wide)

\* the same for the constants, the additions and i64.extend_i32_u
C36_Masked ==
  Finalized =>
    \A k \in 1..Len(Expressions) :
      WithinU64(Expressions[k], Wide \ {Op.i64_extend_i32_s})

\* an addition that carries out of 64 bits: (2^64 - 1) + 7 is emitted with
\* the mask and is 6
C36_Witness ==
  /\ Finalized
  /\ \E k \in 1..Len(Expressions) :
       /\ Expressions[k].op = Op.i64_add
       /\ Closed(Expressions[k])
       /\ ValueOf(Expressions[k]) = [neg |-> FALSE, d |-> <<0, 0, 0, 6>>]

(***************************************************************************)
(* The order of evaluation.  JavaScript evaluates the operands of an       *)
(* emitted expression in the order of the text, and then the node itself.  *)
(***************************************************************************)
\* the nodes the emission of word evaluates, in the order of evaluation
RECURSIVE EvaluatedIn(_, _, _)
RECURSIVE Evaluated(_, _)
EvaluatedIn(words, n, fuel) ==
  IF n > Len(words) THEN <<>>
  ELSE Evaluated(words[n], fuel) \o EvaluatedIn(words, n + 1, fuel)

Evaluated(word, fuel) ==
  IF word < 0 \/ fuel = 0 THEN <<>>
  ELSE EvaluatedIn(OperandsAt(word), 1, fuel - 1) \o <<word>>

\* the node at ptr is an instruction that is no constant and no local_get;
\* a TO_U32 or TO_S64 node is no instruction of its own, the decoder pushes
\* it with its parent
Ordered(ptr) ==
  FinOp(ptr) \notin {Op.i32_const, Op.i64_const, Op.f32_const, Op.f64_const,
                     Op.local_get, Op.TO_U32, Op.TO_S64}

\* the nodes of the statement of the entry k whose order matters, in the
\* order of evaluation
EvaluationOf(k) ==
  SelectSeq(Evaluated(fin.ptrs[k], Len(fin.ast) + 2), Ordered)

\* the place of the node at ptr in the order of decoding
Decoded(ptr) == IndexOf(fin.prePtrs, ptr)

\* the entries of astPtrs between the producer and the consumer of an
\* inlining are null or coercions
ClearBetween(child, parent) ==
  \A n \in (Decoded(child) + 1)..(Decoded(parent) - 1) :
    fin.ptrs[n] = null \/ Coercion(FinOp(fin.prePtrs[n]))

C37_Witness ==
  /\ Finalized
  /\ \E k \in 1..Len(fin.ptrs) :
       /\ fin.ptrs[k] # null
       /\ Len(EvaluationOf(k)) = 3
       /\ FinOp(EvaluationOf(k)[1]) = Op.call
       /\ FinOp(EvaluationOf(k)[2]) = Op.call
       /\ FinOp(EvaluationOf(k)[3]) = Op.i32_add

(***************************************************************************)
(* The braces of the body.  '{', 'for(;;){', 'if(..){' and 'switch(..){'   *)
(* open one, the                                                           *)
(* opener of the dispatch loop 'for(;;){switch(L){' opens two, '}' closes  *)
(* one and '}break}' closes two; '}else{' and 'if(..){L=..;continue}'      *)
(* close as many as they open.                                             *)
(***************************************************************************)
\* how many tokens of the body are of a kind in ts
Count(ts) == Cardinality({n \in 1..Len(body) : body[n].t \in ts})

\* the braces opened and not closed
OpenBraces ==
  Count({"{", "for", "if", "switch"}) + 2 * Count({"dispatch"})
    - Count({"}"}) - 2 * Count({"}break}"})

\* the dispatch loops opened and not closed
OpenLoops == Count({"dispatch"}) - Count({"}break}"})

\* the braces the frames of the block stack hold open: one for each frame
\* of an index below 256, two for the frame of index 256
HeldOpen ==
  IF Len(blocks) > 256 THEN 256 + 2 ELSE Len(blocks)

\* C38: the body is balanced at every block boundary: the open braces are
\* those of the frames on the block stack, the dispatch loop is opened by
\* the push of the frame of index 256 and by no other instruction, and
\* closed by the end of that frame and by no other, so that one dispatch
\* loop is open while the stack holds more than 256 frames and none
\* otherwise; after the end of the outermost block no brace is open.
C38_Balanced ==
  status # "threw" =>
    /\ OpenBraces = HeldOpen
    /\ OpenLoops = (IF Len(blocks) > 256 THEN 1 ELSE 0)
    /\ last.op # -1 =>
         /\ AppendedOf({"dispatch"}) # <<>> <=> Pushed /\ last.depth = 256
         /\ AppendedOf({"}break}"}) # <<>>
              <=> last.op = Op.end /\ last.depth = 257
    /\ blocks = <<>> => OpenBraces = 0

\* the end of the frame of index 256 has closed the dispatch loop that the
\* frame had opened
C38_Witness ==
  /\ status # "threw"
  /\ last.op = Op.end /\ last.depth = 257
  /\ Count({"dispatch"}) = 1
  /\ OpenLoops = 0
  /\ OpenBraces = 256

(***************************************************************************)
(* The stack slots named in the body.                                      *)
(***************************************************************************)
\* the slots an emitted expression names: its slot variables and the slots
\* a call with several results assigns
RECURSIVE SlotsIn(_)
SlotsIn(e) ==
  IF e.op = SlotOp THEN {e.imm[1]}
  ELSE (IF e.op \in {Op.call, Op.call_indirect} /\ Len(e.imm) = 3
        THEN e.imm[2]..(e.imm[2] + e.imm[3] - 1) ELSE {})
       \cup UNION {SlotsIn(e.args[k]) : k \in 1..Len(e.args)}

\* the slots a token of the body names
SlotsOf(tok) ==
  CASE tok.t = "stmt" -> (IF tok.n # 0 THEN {tok.n} ELSE {}) \cup SlotsIn(tok.e)
    [] tok.t \in {"if", "ifgoto", "switch"} -> SlotsIn(tok.e)
    [] tok.t = "copy" -> {tok.n, tok.l[1]}
    [] tok.t = "return" -> {tok.l[k] : k \in 1..Len(tok.l)}
    [] OTHER -> {}

\* the slots named by the text the last instruction appended
Named == UNION {SlotsOf(Appended[k]) : k \in 1..Len(Appended)}

\* C39: a slot s<k> named by the code emitted from a live block has
\* 1 <= k, and k <= stackLimit in a compilation that returns a function, so
\* that it is declared: here for the text of every live instruction and,
\* for the upper bound, of the last one, after which stackLimit is final.
C39_SlotsDeclared ==
  /\ LiveStep => \A k \in Named : k >= 1
  /\ status = "returned" /\ ~last.dead => \A k \in Named : k <= stackLimit

\* the function returns the result of a block that ends in dead code
C39_Undeclared ==
  /\ status = "returned" /\ ~last.dead /\ ~last.region
  /\ stackLimit = 0
  /\ Named = {1}

====
